---------------------------- MODULE Spec2Model ----------------------------
(***************************************************************************)
(* A model of supdate: the profile merge (profile.py), the package         *)
(* builder (package.py), the index builder (cli.py cmd_update) and the     *)
(* library resolver (libraries.py).  Every subsystem has its own           *)
(* specification over the shared variable list; the variables of the       *)
(* other subsystems stay at their idle values.                             *)
(*                                                                         *)
(* Representation of Python values:                                        *)
(*   - a str is a sequence of tokens (<<>> is the empty string, " " is a   *)
(*     one-token separator), so that concatenation and join are sequence   *)
(*     operations;                                                         *)
(*   - an Optional value is a record with an isNone flag, or the string    *)
(*     "None" for plain scalar fields;                                     *)
(*   - a dict with string keys is a function from its key set.             *)
(***************************************************************************)
EXTENDS Integers, Sequences, FiniteSets, TLC

VARIABLES
    \* ---- Profile.merge / full_profile (profile.py, forge.py)
    base,       \* the receiver of merge (self), the vanilla profile
    overlay,    \* the argument of merge (other), the loader profile
    base0,      \* value of base before the call
    overlay0,   \* value of overlay before the call
    mret,       \* what the call returned
    mpc,        \* position of the merge scenario
    \* ---- PackageBuilder (package.py)
    src,        \* files of the instance folder: relative path -> content
    dst,        \* files of the package folder: relative path -> content
    dst0,       \* the package folder before build()
    files,      \* PackageBuilder.files, in insertion order
    rules,      \* the include/exclude calls made so far
    pkgfiles,   \* Package.files
    copied,     \* relative paths build() has copied
    ppc,        \* position of the packaging scenario
    clientdir,  \* the instance's client folder: path -> content
    \* ---- index build (cli.py cmd_update)
    index,      \* packages/index.json
    dirs,       \* packages/<dir>/modpack.json of every directory
    dirs0,      \* the same as the last cmd_update found it
    today,      \* the calendar date, as datetime.now() last gave it
    clock,      \* the wall clock, in seconds
    runs,       \* cmd_update runs so far, alone or at the end of cmd_package
    edits,      \* changes made to the packages tree so far
    streak,     \* successful runs since the tree or the date last changed
    firstIndex, \* index.json as the last successful run found it
    ipc,        \* outcome of the last command: written (index.json), packaged, raised
    \* ---- library resolution (libraries.py LibrariesBuilder, cli.py cmd_forge)
    plibs,      \* profile.libraries of the profile being resolved
    plibs0,     \* profile.libraries before the current call
    fdisk,      \* files of the forge folder: path -> content
    target,     \* files of the target libraries folder: path -> content
    install,    \* the installer's install_profile
    liburl,     \* the base url given to the builder
    copyflag,   \* the copy argument of build()
    lerr,       \* the error the last call raised, "" if none
    lpc,        \* position of the forge build
    target0,    \* the target libraries folder before the current call
    llog,       \* what the forge build did to the libraries, in order
    pwritten,   \* the libraries of the profile file written, if any
    lcheck,     \* what check_forge returned, "unset" before it ran
    \* ---- version bump (cli.py calc_version, versions.py calc_next_version)
    bprev,      \* the previous version given to the call
    bdt,        \* the current date
    bout,       \* the version returned
    bpc,        \* "start", then the function that was called
    \* ---- library coordinates (profile.py Library, LibraryDependency)
    cname,      \* the name of the library being built
    cdep,       \* Library._dependency after construction
    cpath,      \* Library.path
    cpc,        \* "start", then "parsed" or "raised"
    \* ---- naming form selection (forge.py get_version_form)
    fver,       \* the game version given to the call
    fform,      \* the Form returned
    fpc         \* "start", then "selected"

mergeVars == <<base, overlay, base0, overlay0, mret, mpc>>
pkgVars == <<src, dst, dst0, files, rules, pkgfiles, copied, ppc, clientdir>>
idxVars == <<index, dirs, dirs0, today, clock, runs, edits, streak, firstIndex, ipc>>

libVars == <<plibs, plibs0, fdisk, target, install, liburl, copyflag, lerr, lpc,
            target0, llog, pwritten, lcheck>>

bumpVars == <<bprev, bdt, bout, bpc>>

coordVars == <<cname, cdep, cpath, cpc>>

formVars == <<fver, fform, fpc>>

vars == <<mergeVars, pkgVars, idxVars, libVars, bumpVars, coordVars, formVars>>

(***************************************************************************)
(* Bounds                                                                  *)
(***************************************************************************)
MaxLibs == 2      \* longest libraries list of an input profile
MaxGame == 1      \* longest arguments.game list of an input profile
MaxRules == 2     \* most include/exclude calls on one PackageBuilder
MaxRuns == 2      \* most cmd_update runs
MaxDay == 2       \* last calendar date
MaxClock == 2     \* last reading of the wall clock
MaxEdits == 2     \* most changes to the packages tree
MaxProfileLibs == 2   \* longest libraries list of a profile to resolve
MaxSeq == 5       \* largest sequence number of a previous version
MaxParts == 5     \* most colon-separated parts of a library name
MaxComponents == 3    \* most components of a game version
MaxNumber == 20   \* largest component of a game version

(***************************************************************************)
(* Generic helpers                                                         *)
(***************************************************************************)
SeqsUpTo(S, n) == UNION {[1..k -> S] : k \in 0..n}

Range(s) == {s[i] : i \in DOMAIN s}

\* str.join: sep.join(strs), every str a token sequence
RECURSIVE Join(_, _)
Join(strs, sep) ==
    IF strs = <<>> THEN <<>>
    ELSE IF Len(strs) = 1 THEN strs[1]
    ELSE strs[1] \o sep \o Join(Tail(strs), sep)

(***************************************************************************)
(* Profile (profile.py:18-63)                                              *)
(***************************************************************************)
None == "None"
NoneStr == [isNone |-> TRUE, s |-> <<>>]
Str(s) == [isNone |-> FALSE, s |-> s]
NoneArgs == [isNone |-> TRUE, game |-> <<>>, jvm |-> <<>>]
NoneDict == [isNone |-> TRUE, d |-> <<>>]
Dict(d) == [isNone |-> FALSE, d |-> d]
EmptyDict == Dict(<<>>)

\* the fields of a Profile in the order of its __dict__
ProfileKeys ==
    <<"id", "time", "releaseTime", "type", "mainClass", "logging",
      "arguments", "minecraftArguments", "minimumLauncherVersion",
      "libraries", "jar", "inheritsFrom", "assetIndex", "downloads",
      "assets">>

\* build_minecraft_arguments: " ".join(arg for arg in game if isinstance(arg, str))
RECURSIVE StrEntries(_)
StrEntries(game) ==
    IF game = <<>> THEN <<>>
    ELSE IF game[1].isstr THEN <<game[1].s>> \o StrEntries(Tail(game))
    ELSE StrEntries(Tail(game))

build_minecraft_arguments(arguments) == Join(StrEntries(arguments.game), <<" ">>)

\* Profile.__post_init__: minecraftArguments is rebuilt when arguments is set
post_init(p) ==
    IF ~p.arguments.isNone
    THEN [p EXCEPT !.minecraftArguments = Str(build_minecraft_arguments(p.arguments))]
    ELSE p

\* Namespace.__iter__: a key is yielded unless its value equals the field's
\* default; fields without a default (the five required ones) and fields
\* with a default_factory (logging, libraries) are always yielded
Yielded(p, key) ==
    CASE key \in {"id", "time", "releaseTime", "type", "mainClass"} -> TRUE
      [] key \in {"logging", "libraries"} -> TRUE
      [] key = "arguments" -> ~p.arguments.isNone
      [] key = "minecraftArguments" -> ~p.minecraftArguments.isNone
      [] key \in {"assetIndex", "downloads"} -> ~p[key].isNone
      [] OTHER -> p[key] # None

\* {library.name: library for library in libs}: first occurrence fixes the
\* position, last occurrence fixes the value
dict_put(d, lib) ==
    IF \E i \in DOMAIN d : d[i].name = lib.name
    THEN [i \in DOMAIN d |-> IF d[i].name = lib.name THEN lib ELSE d[i]]
    ELSE Append(d, lib)

RECURSIVE dict_by_name(_, _)
dict_by_name(libs, d) ==
    IF libs = <<>> THEN d
    ELSE dict_by_name(Tail(libs), dict_put(d, libs[1]))

merge_libraries_base_first(selfLibs, otherLibs) ==
    dict_by_name(selfLibs \o otherLibs, <<>>)

\* profile.py:45-46: chain(other.libraries, self.libraries)
merge_libraries(selfLibs, otherLibs) ==
    dict_by_name(otherLibs \o selfLibs, <<>>)

\* dict.update
dict_update(d, e) ==
    [k \in (DOMAIN d) \cup (DOMAIN e) |-> IF k \in DOMAIN e THEN e[k] ELSE d[k]]

Ok(p) == [self |-> p, raised |-> FALSE]
Raise(p) == [self |-> p, raised |-> TRUE]

\* profile.py:49-54
merge_minecraftArguments(self, value) ==
    IF ~self.arguments.isNone
    THEN IF self.minecraftArguments.isNone
         THEN Raise(self)      \* None += str
         ELSE Ok([self EXCEPT !.minecraftArguments =
                        Str(self.minecraftArguments.s \o <<" ">> \o value.s)])
    ELSE Ok([self EXCEPT !.minecraftArguments = value])

\* one iteration of the loop of Profile.merge (profile.py:43-60)
merge_key(self, other, key) ==
    CASE key = "libraries" ->
            Ok([self EXCEPT !.libraries = merge_libraries(self.libraries, other.libraries)])
      [] key = "arguments" ->
            IF self.arguments.isNone
            THEN Raise(self)   \* None["game"]
            ELSE Ok([self EXCEPT !.arguments.game = self.arguments.game \o other.arguments.game])
      [] key = "minecraftArguments" ->
            merge_minecraftArguments(self, other.minecraftArguments)
      [] key \in {"logging", "assetIndex", "downloads"} ->
            \* isinstance(value, dict): self[key].update(value)
            IF self[key].isNone
            THEN Raise(self)   \* None.update
            ELSE Ok([self EXCEPT ![key] = Dict(dict_update(self[key].d, other[key].d))])
      [] OTHER ->
            Ok([self EXCEPT ![key] = other[key]])

RECURSIVE merge_from(_, _, _)
merge_from(self, other, i) ==
    IF i > Len(ProfileKeys) THEN Ok(self)
    ELSE IF ~Yielded(other, ProfileKeys[i]) THEN merge_from(self, other, i + 1)
    ELSE LET r == merge_key(self, other, ProfileKeys[i])
         IN  IF r.raised THEN r ELSE merge_from(r.self, other, i + 1)

\* Profile.merge: the state of the two objects after the call, the value
\* returned and whether the call raised
merge_into_other(self, other) ==
    LET r == merge_from(other, self, 1)
    IN  [self |-> self, other |-> r.self, ret |-> None, raised |-> r.raised]

merge(self, other) ==
    LET r == merge_from(self, other, 1)
    IN  [self |-> r.self, other |-> other, ret |-> None, raised |-> r.raised]

(***************************************************************************)
(* Input profiles of the merge scenario                                    *)
(***************************************************************************)
McVersion == "1.12.2"

LibNames == {"g:a:1.0", "g:b:1.0"}
BaseLibs == [name : LibNames, downloads : {"base"}]
OverlayLibs == [name : LibNames, downloads : {"overlay"}]

StrEntry(t) == [isstr |-> TRUE, s |-> <<t>>]
RuleEntry == [isstr |-> FALSE, s |-> <<>>]      \* a non-string (dict) entry

ArgsOf(tok, raw) ==
    {[arguments |-> NoneArgs, minecraftArguments |-> m] : m \in {NoneStr, Str(<<raw>>)}}
    \cup
    {[arguments |-> [isNone |-> FALSE, game |-> g, jvm |-> <<tok>>],
      minecraftArguments |-> Str(<<raw>>)] :
        g \in SeqsUpTo({StrEntry(tok), RuleEntry}, MaxGame)}

\* what Profile.from_json builds: the constructor runs __post_init__
NewProfile(scalar, inherits, logging, a, libs, assetIndex) ==
    post_init(
        [id |-> scalar, time |-> scalar, releaseTime |-> scalar, type |-> scalar,
         mainClass |-> scalar, logging |-> logging, arguments |-> a.arguments,
         minecraftArguments |-> a.minecraftArguments,
         minimumLauncherVersion |-> None, libraries |-> libs, jar |-> None,
         inheritsFrom |-> inherits, assetIndex |-> assetIndex, downloads |-> NoneDict,
         assets |-> None])

\* the vanilla profiles; a few of them name a parent of their own
BaseProfiles ==
    {[NewProfile("vanilla", None, Dict([client |-> "b"]), a, libs, ai)
        EXCEPT !.assets = "1.12", !.jar = "vanilla.jar"] :
        a \in ArgsOf("--b", "braw"),
        libs \in SeqsUpTo(BaseLibs, MaxLibs),
        ai \in {NoneDict, Dict([id |-> "b"])}}
    \cup
    {[NewProfile("vanilla", "1.12", Dict([client |-> "b"]), a, <<>>, NoneDict)
        EXCEPT !.assets = "1.12", !.jar = "vanilla.jar"] :
        a \in ArgsOf("--b", "braw")}

OverlayProfiles ==
    {NewProfile(sc[1], sc[2], lg, a, libs, ai) :
        sc \in {<<None, None>>, <<"forge", McVersion>>},
        lg \in {EmptyDict, Dict([client |-> "o"])},
        a \in ArgsOf("--o", "oraw"),
        libs \in SeqsUpTo(OverlayLibs, MaxLibs),
        ai \in {NoneDict, Dict([id |-> "o"])}}

(***************************************************************************)
(* Idle values of the subsystems a scenario does not use                   *)
(***************************************************************************)
IdleMerge ==
    /\ base = <<>> /\ overlay = <<>> /\ base0 = <<>> /\ overlay0 = <<>>
    /\ mret = "unset" /\ mpc = "idle"

IdlePackage ==
    /\ src = <<>> /\ dst = <<>> /\ dst0 = <<>> /\ files = <<>> /\ rules = <<>>
    /\ pkgfiles = <<>> /\ copied = {} /\ ppc = "idle" /\ clientdir = <<>>

IdleIndex ==
    /\ index = <<>> /\ dirs = <<>> /\ dirs0 = <<>> /\ today = 0 /\ clock = 0 /\ runs = 0
    /\ edits = 0 /\ streak = 0 /\ firstIndex = <<>> /\ ipc = "idle"

IdleBump == bprev = <<>> /\ bdt = 0 /\ bout = <<>> /\ bpc = "idle"

IdleCoord == cname = <<>> /\ cdep = <<>> /\ cpath = <<>> /\ cpc = "idle"

IdleForm == fver = <<>> /\ fform = <<>> /\ fpc = "idle"

IdleLibraries ==
    /\ plibs = <<>> /\ plibs0 = <<>> /\ fdisk = <<>> /\ target = <<>>
    /\ install = <<>> /\ liburl = <<>> /\ copyflag = FALSE /\ lerr = ""
    /\ lpc = "idle" /\ target0 = <<>> /\ llog = <<>> /\ pwritten = <<>>
    /\ lcheck = "unset"

(***************************************************************************)
(* The merge scenario                                                      *)
(***************************************************************************)
InitMerge ==
    /\ IdlePackage
    /\ IdleIndex
    /\ IdleLibraries
    /\ IdleBump
    /\ IdleCoord
    /\ IdleForm
    /\ base \in BaseProfiles
    /\ overlay \in OverlayProfiles
    /\ base0 = base
    /\ overlay0 = overlay
    /\ mret = "unset"
    /\ mpc = "start"

\* base.merge(overlay): profile.py:42-60
Merge ==
    /\ mpc = "start"
    /\ LET r == merge(base, overlay)
       IN  /\ base' = r.self
           /\ overlay' = r.other
           /\ mret' = r.ret
           /\ mpc' = IF r.raised THEN "raised" ELSE "merged"
    /\ UNCHANGED <<base0, overlay0>>
    /\ UNCHANGED <<pkgVars, idxVars, libVars, bumpVars, coordVars, formVars>>

FullProfile_keep_inheritsFrom ==
    /\ mpc = "start"
    /\ IF overlay.inheritsFrom # McVersion
       THEN /\ mpc' = "assert_failed"
            /\ UNCHANGED <<base, overlay, mret>>
       ELSE LET r == merge(base, overlay)
            IN  /\ overlay' = r.other
                /\ mret' = r.ret
                /\ base' = r.self
                /\ mpc' = IF r.raised THEN "raised" ELSE "full"
    /\ UNCHANGED <<base0, overlay0>>
    /\ UNCHANGED <<pkgVars, idxVars, libVars, bumpVars, coordVars, formVars>>

\* ForgeBase.full_profile (forge.py:102-113): assert, merge, clear inheritsFrom
FullProfile ==
    /\ mpc = "start"
    /\ IF overlay.inheritsFrom # McVersion
       THEN /\ mpc' = "assert_failed"
            /\ UNCHANGED <<base, overlay, mret>>
       ELSE LET r == merge(base, overlay)
            IN  /\ overlay' = r.other
                /\ mret' = r.ret
                /\ IF r.raised
                   THEN base' = r.self /\ mpc' = "raised"
                   ELSE /\ base' = [r.self EXCEPT !.inheritsFrom = None]
                        /\ mpc' = "full"
    /\ UNCHANGED <<base0, overlay0>>
    /\ UNCHANGED <<pkgVars, idxVars, libVars, bumpVars, coordVars, formVars>>

NextMerge == Merge \/ FullProfile

SpecMerge == InitMerge /\ [][NextMerge]_vars

(***************************************************************************)
(* Properties of the merge scenario                                        *)
(***************************************************************************)
Names(libs) == [i \in DOMAIN libs |-> libs[i].name]

\* first occurrence of every element, in order
RECURSIVE Dedup(_, _)
Dedup(s, seen) ==
    IF s = <<>> THEN <<>>
    ELSE IF s[1] \in seen THEN Dedup(Tail(s), seen)
    ELSE <<s[1]>> \o Dedup(Tail(s), seen \cup {s[1]})

Merged == mpc \in {"merged", "full"}

CollidingNames == Range(Names(base0.libraries)) \cap Range(Names(overlay0.libraries))

\* C1: when base and overlay both hold a library of the same name (with
\* different downloads payloads) the merged list holds exactly one library
\* of that name, and it is the overlay's entry.
C1_OverlayWinsOnCollision ==
    Merged =>
        \A n \in CollidingNames :
            /\ Cardinality({i \in DOMAIN base.libraries : base.libraries[i].name = n}) = 1
            /\ \A i \in DOMAIN base.libraries :
                    base.libraries[i].name = n => base.libraries[i].downloads = "overlay"

\* C6: after a merge whose result has arguments, minecraftArguments is the
\* space-joined string entries of the merged arguments.game, which is base's
\* list followed by overlay's list.
C6_MinecraftArgumentsDerived ==
    (Merged /\ ~base.arguments.isNone) =>
        /\ base.arguments.game = base0.arguments.game \o overlay0.arguments.game
        /\ base.minecraftArguments =
                Str(Join(StrEntries(base0.arguments.game \o overlay0.arguments.game), <<" ">>))

\* C7 (as claimed): merge leaves both inputs equal to their values before
\* the call.
C7_InputsUnchanged ==
    mpc = "merged" => (base = base0 /\ overlay = overlay0)

\* C7 (amended): merge works in place on base and returns None; overlay is
\* equal to its value before the call, also when the call raises.
C7_OverlayUnchangedReturnsNone ==
    mpc \in {"merged", "raised", "full"} => (overlay = overlay0 /\ mret = None)

C7_Witness ==
    /\ mpc = "merged"
    /\ base # base0
    /\ overlay = overlay0
    /\ Len(overlay0.libraries) > 0
    /\ ~overlay0.arguments.isNone

\* C8: the merged list names the overlay's libraries first, in the
\* overlay's order, then the libraries only base has, in base's order, and
\* no name occurs twice.
C8_MergedLibraryOrder ==
    Merged =>
        LET on == Dedup(Names(overlay0.libraries), {})
            bn == Dedup(Names(base0.libraries), Range(on))
        IN  /\ Names(base.libraries) = on \o bn
            /\ \A i, j \in DOMAIN base.libraries :
                    base.libraries[i].name = base.libraries[j].name => i = j

C8_Witness ==
    /\ mpc = "merged"
    /\ Len(overlay0.libraries) = 2
    /\ CollidingNames # {}
    /\ Range(Names(base0.libraries)) \ Range(Names(overlay0.libraries)) # {}
    /\ Len(base.libraries) = 2

IsEmptyProfile(p) ==
    /\ \A k \in {"id", "time", "releaseTime", "type", "mainClass",
                 "minimumLauncherVersion", "jar", "inheritsFrom", "assets"} : p[k] = None
    /\ p.logging = EmptyDict
    /\ p.libraries = <<>>
    /\ p.arguments.isNone /\ p.minecraftArguments.isNone
    /\ p.assetIndex.isNone /\ p.downloads.isNone

\* C9: merging an overlay whose fields are all null/empty gives a profile
\* equal to base in every field, inheritsFrom being null.
C9_EmptyOverlayIsIdentity ==
    (mpc = "merged" /\ IsEmptyProfile(overlay0)) =>
        base = [base0 EXCEPT !.inheritsFrom = None]

\* C10: with null merged arguments minecraftArguments is base's raw string,
\* a space, overlay's raw string; with non-null arguments the raw strings
\* are ignored and it is recomputed from the concatenated arguments.game.
C10_ConcatWhenNullRecomputeOtherwise ==
    Merged =>
        /\ (base.arguments.isNone /\ ~base0.minecraftArguments.isNone
                /\ ~overlay0.minecraftArguments.isNone) =>
              base.minecraftArguments =
                Str(base0.minecraftArguments.s \o <<" ">> \o overlay0.minecraftArguments.s)
        /\ ~base.arguments.isNone =>
              base.minecraftArguments = Str(build_minecraft_arguments(base.arguments))

\* C22: the profile the loader build returns has inheritsFrom null, whatever
\* the vanilla and the loader profile carried, and it is returned only when
\* the loader profile's inheritsFrom is the vanilla version id; when it is
\* not, the build stops at the assertion with nothing merged.
C22_MergedInheritsFromNull ==
    /\ mpc = "full" =>
            /\ base.inheritsFrom = None
            /\ overlay0.inheritsFrom = McVersion
    /\ mpc = "assert_failed" =>
            /\ overlay0.inheritsFrom # McVersion
            /\ base = base0

\* a vanilla profile that names a parent, merged with a loader profile that
\* inherits from the vanilla version
C22_Witness ==
    /\ mpc = "full"
    /\ base0.inheritsFrom # None
    /\ base0.inheritsFrom # McVersion
    /\ overlay0.inheritsFrom = McVersion
    /\ base.inheritsFrom = None
    /\ base.id = "forge"

(***************************************************************************)
(* PackageBuilder (package.py:53-92), is_same_file (utils.py:98-111)       *)
(***************************************************************************)
\* file names are token sequences; "*" is the glob wildcard
A_TXT == <<"a", ".", "txt">>
B_TXT == <<"b", ".", "txt">>
C_MD == <<"c", ".", "md">>
FileNames == {A_TXT, B_TXT, C_MD}
STAR_TXT == <<"*", ".", "txt">>
STAR == <<"*">>
\* the patterns of the include and exclude rules; the client builder's
\* pattern is STAR
Patterns == {STAR_TXT, A_TXT}

\* the orders in which a folder may list its entries: Path.glob yields
\* them in the order of os.scandir, which the file system decides
ScanOrders(folder) ==
    {o \in [1..Cardinality(DOMAIN folder) -> DOMAIN folder] :
        \A n \in DOMAIN folder : \E i \in DOMAIN o : o[i] = n}

\* file contents are byte sequences
Contents == {<<1>>, <<2>>}
FileSystems == UNION {[S -> Contents] : S \in SUBSET FileNames}

PackageUrl == <<"https://packages.myang2.com/", "pack", "/">>

exists(fs, path) == path \in DOMAIN fs

\* utils.py:98-104, the digest of a file's bytes
sha1_hexdigest(content) == [sha1 |-> content]

\* os.stat(file).st_size
st_size(content) == Len(content)

\* utils.py:107-111
is_same_file(a_fs, a, b_fs, b) ==
    IF ~exists(a_fs, a) \/ ~exists(b_fs, b) THEN FALSE
    ELSE sha1_hexdigest(a_fs[a]) = sha1_hexdigest(b_fs[b])

\* the match of one path component against a glob pattern
RECURSIVE fnmatch(_, _)
fnmatch(pat, name) ==
    IF pat = <<>> THEN name = <<>>
    ELSE IF pat[1] = "*"
         THEN fnmatch(Tail(pat), name) \/ (name # <<>> /\ fnmatch(pat, Tail(name)))
         ELSE name # <<>> /\ name[1] = pat[1] /\ fnmatch(Tail(pat), Tail(name))

\* the files of the folder the pattern matches, in the listing order
RECURSIVE scan_from(_, _, _)
scan_from(pattern, folder, order) ==
    IF order = <<>> THEN <<>>
    ELSE IF exists(folder, order[1]) /\ fnmatch(pattern, order[1])
         THEN <<order[1]>> \o scan_from(pattern, folder, Tail(order))
         ELSE scan_from(pattern, folder, Tail(order))

\* package.py:61-67, order the listing order of the folder in this call
scan(pattern, folder, order) == scan_from(pattern, folder, order)

\* self.files[path] = file
files_put(fs, path) ==
    IF \E i \in DOMAIN fs : fs[i].path = path
    THEN [i \in DOMAIN fs |-> IF fs[i].path = path
                              THEN [path |-> path, file |-> <<"instance", path>>]
                              ELSE fs[i]]
    ELSE Append(fs, [path |-> path, file |-> <<"instance", path>>])

\* self.files.pop(path, None)
RECURSIVE files_pop(_, _)
files_pop(fs, path) ==
    IF fs = <<>> THEN <<>>
    ELSE IF fs[1].path = path THEN files_pop(Tail(fs), path)
    ELSE <<fs[1]>> \o files_pop(Tail(fs), path)

RECURSIVE include_all(_, _)
include_all(fs, paths) ==
    IF paths = <<>> THEN fs ELSE include_all(files_put(fs, paths[1]), Tail(paths))

RECURSIVE exclude_all(_, _)
exclude_all(fs, paths) ==
    IF paths = <<>> THEN fs ELSE exclude_all(files_pop(fs, paths[1]), Tail(paths))

\* package.py:69-71
include(fs, pattern, folder, order) == include_all(fs, scan(pattern, folder, order))

exclude_by_file(fs, pattern, folder, order) == fs

\* package.py:73-75
exclude(fs, pattern, folder, order) == exclude_all(fs, scan(pattern, folder, order))

\* the PackageFile record of package.py:87-92
PackageFile(folder, path) ==
    [size |-> st_size(folder[path]),
     sha1 |-> sha1_hexdigest(folder[path]),
     path |-> path,
     url |-> PackageUrl \o path]

\* the loop of PackageBuilder.build (package.py:79-92) from its i-th item
RECURSIVE build_from(_, _, _, _)
build_from(st, fs, folder, i) ==
    IF i > Len(fs) THEN st
    ELSE LET path == fs[i].path
             copy == is_same_file(folder, path, st.dst, path)
         IN  build_from(
                [dst |-> IF copy
                         THEN [p \in (DOMAIN st.dst) \cup {path} |->
                                    IF p = path THEN folder[path] ELSE st.dst[p]]
                         ELSE st.dst,
                 copied |-> IF copy THEN st.copied \cup {path} ELSE st.copied,
                 pkgfiles |-> Append(st.pkgfiles, PackageFile(folder, path))],
                fs, folder, i + 1)

InitPackage ==
    /\ IdleMerge
    /\ IdleIndex
    /\ IdleLibraries
    /\ IdleBump
    /\ IdleCoord
    /\ IdleForm
    /\ src \in FileSystems
    /\ dst \in FileSystems
    /\ dst0 = dst
    /\ files = <<>>
    /\ rules = <<>>
    /\ pkgfiles = <<>>
    /\ copied = {}
    /\ clientdir = <<>>
    /\ ppc = "select"

\* package_builder.include(pattern)
Include ==
    /\ ppc = "select"
    /\ Len(rules) < MaxRules
    /\ \E pattern \in Patterns, order \in ScanOrders(src) :
        /\ files' = include(files, pattern, src, order)
        /\ rules' = Append(rules, [kind |-> "include", pattern |-> pattern])
    /\ UNCHANGED <<src, dst, dst0, pkgfiles, copied, ppc, clientdir>>
    /\ UNCHANGED <<mergeVars, idxVars, libVars, bumpVars, coordVars, formVars>>

\* package_builder.exclude(pattern)
Exclude ==
    /\ ppc = "select"
    /\ Len(rules) < MaxRules
    /\ \E pattern \in Patterns, order \in ScanOrders(src) :
        /\ files' = exclude(files, pattern, src, order)
        /\ rules' = Append(rules, [kind |-> "exclude", pattern |-> pattern])
    /\ UNCHANGED <<src, dst, dst0, pkgfiles, copied, ppc, clientdir>>
    /\ UNCHANGED <<mergeVars, idxVars, libVars, bumpVars, coordVars, formVars>>

\* package_builder.build()
Build ==
    /\ ppc = "select"
    /\ LET r == build_from([dst |-> dst, copied |-> copied, pkgfiles |-> pkgfiles],
                           files, src, 1)
       IN  /\ dst' = r.dst
           /\ copied' = r.copied
           /\ pkgfiles' = r.pkgfiles
    /\ dst0' = dst
    /\ ppc' = "built"
    /\ UNCHANGED <<src, files, rules, clientdir>>
    /\ UNCHANGED <<mergeVars, idxVars, libVars, bumpVars, coordVars, formVars>>

\* what the client folder of the instance may hold when it is packaged
ClientFolders ==
    {<<>>, [p \in {A_TXT} |-> <<1>>], [p \in {A_TXT} |-> <<2>>],
     [p \in {B_TXT, C_MD} |-> <<1>>]}

\* the second builder of cmd_package (cli.py:190-192): a PackageBuilder of
\* the same package over the client folder, include("**/*"), build()
ClientBuild ==
    /\ ppc = "built"
    /\ \E folder \in ClientFolders :
      \E order \in ScanOrders(folder) :
        /\ clientdir' = folder
        /\ LET r == build_from([dst |-> dst, copied |-> copied, pkgfiles |-> pkgfiles],
                               include(<<>>, STAR, folder, order), folder, 1)
           IN  /\ dst' = r.dst
               /\ copied' = r.copied
               /\ pkgfiles' = r.pkgfiles
    /\ ppc' = "packaged"
    /\ UNCHANGED <<src, dst0, files, rules>>
    /\ UNCHANGED <<mergeVars, idxVars, libVars, bumpVars, coordVars, formVars>>

NextPackage == Include \/ Exclude \/ Build \/ ClientBuild

SpecPackage == InitPackage /\ [][NextPackage]_vars

(***************************************************************************)
(* Properties of the packaging scenario                                    *)
(***************************************************************************)
Selected == {files[i].path : i \in DOMAIN files}

\* C2: build() copies a selected file exactly when the destination's
\* content hash differs from the source's, a missing destination counting
\* as differing.
C2_CopiedIffHashDiffers ==
    ppc = "built" =>
        \A p \in Selected :
            p \in copied <=>
                (~exists(dst0, p) \/ sha1_hexdigest(dst0[p]) # sha1_hexdigest(src[p]))

\* the i-th rule matched path p
RuleMatched(i, p) == exists(src, p) /\ fnmatch(rules[i].pattern, p)

Rule(kind, pattern) == [kind |-> kind, pattern |-> pattern]

\* C5: a path is selected iff the last rule that matched it was an include;
\* with a.txt and b.txt present, include *.txt then exclude a.txt selects
\* b.txt alone, and exclude a.txt then include *.txt selects both.
C5_LastMatchingRuleDecides ==
    /\ \A p \in FileNames :
        p \in Selected <=>
            \E i \in DOMAIN rules :
                /\ RuleMatched(i, p)
                /\ rules[i].kind = "include"
                /\ \A j \in DOMAIN rules : j > i => ~RuleMatched(j, p)
    /\ ({A_TXT, B_TXT} \subseteq DOMAIN src
            /\ rules = <<Rule("include", STAR_TXT), Rule("exclude", A_TXT)>>)
        => Selected = {B_TXT}
    /\ ({A_TXT, B_TXT} \subseteq DOMAIN src
            /\ rules = <<Rule("exclude", A_TXT), Rule("include", STAR_TXT)>>)
        => Selected = {A_TXT, B_TXT}

C5_Witness ==
    /\ {A_TXT, B_TXT} \subseteq DOMAIN src
    /\ rules = <<Rule("include", STAR_TXT), Rule("exclude", A_TXT)>>
    /\ Selected = {B_TXT}

\* C12: in the package cmd_package produces, the instance builder's files
\* followed by the client builder's, no two PackageFile entries have the
\* same relative path.
C12_UniqueRelativePaths ==
    ppc = "packaged" =>
        \A i, j \in DOMAIN pkgfiles : i # j => pkgfiles[i].path # pkgfiles[j].path

(***************************************************************************)
(* Index build: SUpdate.cmd_update, get_latest_manifest, calc_version      *)
(* (cli.py:202-257, 305-317), IndexPackage.from_package (index.py:20-33)   *)
(***************************************************************************)
\* A version string "{date}.{seq}" is the token sequence <<date, ".", seq>>;
\* dates are numbered 1, 2, ... in calendar order (the %Y%m%d rendering has
\* a fixed width).
Version(major, minor) == <<major, ".", minor>>

\* str.partition('.'): minor is <<>> (the empty string) without a '.'
partition(v) ==
    IF Len(v) >= 3 THEN [major |-> v[1], sep |-> v[2], minor |-> <<v[3]>>]
    ELSE [major |-> v[1], sep |-> "", minor |-> <<>>]

\* int(minor or '-1')
int_or(minor) == IF minor = <<>> THEN -1 ELSE minor[1]

NoVersion == <<>>      \* prev_version is None

calc_version_keep_seq(prev_version, dt) ==
    IF prev_version = NoVersion THEN Version(dt, 0)
    ELSE LET pv == partition(prev_version)
         IN  IF pv.major # dt THEN Version(dt, 0)
             ELSE Version(dt, IF pv.minor = <<>> THEN 0 ELSE pv.minor[1])

\* cli.py:305-317, dt the rendering of the current date
calc_version(prev_version, dt) ==
    IF prev_version = NoVersion THEN Version(dt, 0)
    ELSE LET pv == partition(prev_version)
         IN  IF pv.major # dt THEN Version(dt, 0)
             ELSE Version(dt, int_or(pv.minor) + 1)

calc_next_version_keep_date(prev_version, dt) ==
    IF prev_version = NoVersion THEN Version(dt, 0)
    ELSE LET pv == partition(prev_version)
         IN  Version(pv.major, int_or(pv.minor) + 1)

\* versions.py:78-89, dt the rendering of the current date
calc_next_version(prev_version, dt) ==
    IF prev_version = NoVersion THEN Version(dt, 0)
    ELSE LET pv == partition(prev_version)
         IN  IF pv.major # dt THEN Version(dt, 0)
             ELSE Version(dt, int_or(pv.minor) + 1)

\* the previous versions of the bump scenario: none, a date alone, or a
\* date and a sequence number
PrevVersions ==
    {NoVersion} \cup {<<d>> : d \in 0..MaxDay}
    \cup {Version(d, n) : d \in 0..MaxDay, n \in 0..MaxSeq}

InitBump ==
    /\ IdleMerge
    /\ IdlePackage
    /\ IdleIndex
    /\ IdleLibraries
    /\ IdleCoord
    /\ IdleForm
    /\ bprev \in PrevVersions
    /\ bdt \in 0..MaxDay
    /\ bout = <<>>
    /\ bpc = "start"

\* SUpdate.calc_version(prev_version)
CalcVersion ==
    /\ bpc = "start"
    /\ bout' = calc_version(bprev, bdt)
    /\ bpc' = "calc_version"
    /\ UNCHANGED <<bprev, bdt>>
    /\ UNCHANGED <<mergeVars, pkgVars, idxVars, libVars, coordVars, formVars>>

\* versions.calc_next_version(prev_version)
CalcNextVersion ==
    /\ bpc = "start"
    /\ bout' = calc_next_version(bprev, bdt)
    /\ bpc' = "calc_next_version"
    /\ UNCHANGED <<bprev, bdt>>
    /\ UNCHANGED <<mergeVars, pkgVars, idxVars, libVars, coordVars, formVars>>

NextBump == CalcVersion \/ CalcNextVersion

SpecBump == InitBump /\ [][NextBump]_vars

\* C13: the bump of no version is today.0; of a version of today with
\* sequence n it is today.(n+1); of a version of another date it is today.0.
C13_Bump ==
    bpc \in {"calc_version", "calc_next_version"} =>
        /\ bprev = NoVersion => bout = <<bdt, ".", 0>>
        /\ \A n \in 0..MaxSeq : bprev = <<bdt, ".", n>> => bout = <<bdt, ".", n + 1>>
        /\ \A d \in 0..MaxDay, n \in 0..MaxSeq :
              (d # bdt /\ bprev = <<d, ".", n>>) => bout = <<bdt, ".", 0>>

\* bump("{today}.5") = "{today}.6"
C13_Witness ==
    /\ bpc = "calc_version"
    /\ bprev = <<bdt, ".", 5>>
    /\ bout = <<bdt, ".", 6>>

DirNames == {"d1", "d2"}
\* the orders in which packages_path.iterdir() may list the directories:
\* the order of os.scandir, which the file system decides
DirOrders ==
    {o \in [1..Cardinality(DirNames) -> DirNames] :
        \A n \in DirNames : \E i \in DOMAIN o : o[i] = n}
PackageIds == {"p1", "p2"}

PackagesUrl == "https://packages.myang2.com"
DefaultLauncher == [version |-> "0.0.0", url |-> "https://example.com/"]

\* modpack.json of a directory: missing, not loadable, or a Package
NoModpack == [kind |-> "absent", id |-> None, name |-> None,
              version |-> NoVersion, time |-> 0, body |-> 0]
BadModpack == [NoModpack EXCEPT !.kind = "corrupt"]
Modpack(id, name, version, time, body) ==
    [kind |-> "ok", id |-> id, name |-> name, version |-> version,
     time |-> time, body |-> body]

\* the bytes of a modpack.json
file_bytes(m) == <<m.id, m.name, m.version, m.time, m.body>>

\* what a directory of the packages tree may hold when the index is first
\* built (cli.py:220-225): no modpack.json, one that does not load, or a
\* Package, with or without a name
InitialModpacks ==
    {NoModpack, BadModpack}
    \cup {Modpack(id, name, Version(0, 0), 0, 1) :
            id \in PackageIds, name \in {None, "pack"}}

\* what the removal of a directory or damage to a modpack.json leaves
DamagedModpacks == {NoModpack, BadModpack}

\* the files a cmd_package run finds to list in the instance
Bodies == {2}

NoIndex == [exists |-> FALSE, version |-> NoVersion, time |-> 0,
            launcher |-> DefaultLauncher, packages |-> <<>>]

\* cli.py:246-257
get_latest_manifest(idx, dt, now) ==
    IF idx.exists THEN idx
    ELSE [exists |-> FALSE, version |-> calc_version(NoVersion, dt), time |-> now,
          launcher |-> DefaultLauncher, packages |-> <<>>]

from_package_zero_time(package, dir) ==
    [name |-> package.name,
     version |-> package.version,
     time |-> 0,
     url |-> <<PackagesUrl, "/", dir, "/">>,
     path |-> "modpack.json",
     sha1 |-> sha1_hexdigest(file_bytes(package)),
     size |-> st_size(file_bytes(package))]

\* index.py:20-33
from_package(package, dir) ==
    [name |-> package.name,
     version |-> package.version,
     time |-> package.time,
     url |-> <<PackagesUrl, "/", dir, "/">>,
     path |-> "modpack.json",
     sha1 |-> sha1_hexdigest(file_bytes(package)),
     size |-> st_size(file_bytes(package))]

carried_never(prev_packages, package) == FALSE

\* cli.py:227-228: the previous IndexPackage is carried forward
carried(prev_packages, package) ==
    /\ package.id \in DOMAIN prev_packages
    /\ prev_packages[package.id].sha1 = sha1_hexdigest(file_bytes(package))

\* the loop of cmd_update (cli.py:215-241) from the i-th directory of the
\* listing order
RECURSIVE update_from(_, _, _, _, _, _)
update_from(st, prev, next_version, next_datetime, order, i) ==
    IF i > Len(order) THEN st
    ELSE
      LET dir == order[i]
          package == st.dirs[dir]
      IN  CASE package.kind = "absent" ->
                  update_from(st, prev, next_version, next_datetime, order, i + 1)
            [] package.kind = "corrupt" ->
                  [st EXCEPT !.raised = TRUE]        \* Package.read_from_path
            [] OTHER ->
                  IF carried(prev.packages, package)
                  THEN update_from(
                          [st EXCEPT !.packages =
                              dict_update(st.packages,
                                          [k \in {package.id} |-> prev.packages[package.id]])],
                          prev, next_version, next_datetime, order, i + 1)
                  ELSE IF package.name = None
                  THEN [st EXCEPT !.raised = TRUE]   \* Package.to_json: pop("name")
                  ELSE LET written == [package EXCEPT !.version = next_version,
                                                      !.time = next_datetime]
                       IN  update_from(
                              [st EXCEPT !.dirs[dir] = written,
                                         !.packages =
                                            dict_update(st.packages,
                                                [k \in {package.id} |->
                                                    from_package(written, dir)])],
                              prev, next_version, next_datetime, order, i + 1)

cmd_update_publish_partial(idx, ds, dt1, dt2, now, order) ==
    LET prev_manifest == get_latest_manifest(idx, dt1, now)
        next_version == calc_version(prev_manifest.version, dt2)
        r == update_from([dirs |-> ds, packages |-> <<>>, raised |-> FALSE],
                         prev_manifest, next_version, now, order, 1)
    IN  [dirs |-> r.dirs,
         raised |-> r.raised,
         index |-> [exists |-> TRUE, version |-> next_version, time |-> now,
                    launcher |-> prev_manifest.launcher, packages |-> r.packages]]

\* cmd_update (cli.py:202-244) at time now, the directories listed in the
\* given order. calc_version reads the date at each call (cli.py:307): dt1
\* is the date get_latest_manifest reads when there is no index.json
\* (cli.py:250), dt2 the date read for next_version (cli.py:206)
cmd_update(idx, ds, dt1, dt2, now, order) ==
    LET prev_manifest == get_latest_manifest(idx, dt1, now)
        next_version == calc_version(prev_manifest.version, dt2)
        r == update_from([dirs |-> ds, packages |-> <<>>, raised |-> FALSE],
                         prev_manifest, next_version, now, order, 1)
    IN  [dirs |-> r.dirs,
         raised |-> r.raised,
         index |-> IF r.raised THEN idx
                   ELSE [exists |-> TRUE, version |-> next_version, time |-> now,
                         launcher |-> prev_manifest.launcher, packages |-> r.packages]]

\* the package cmd_package builds for the instance named dir (cli.py:137-
\* 151): it gets the directory's name as id, the name of the previous
\* modpack.json (the directory's name when there is none), the next
\* version and the time of the run; body stands for the files listed
\* anew. dt1 is the date get_latest_manifest reads when there is no
\* index.json (cli.py:137), dt2 the date read for the version (cli.py:150)
package_of(idx, ds, dir, body, dt1, dt2, now) ==
    LET prev_manifest == get_latest_manifest(idx, dt1, now)
        prev_package == ds[dir]
    IN  Modpack(dir,
                IF prev_package.kind = "ok" THEN prev_package.name ELSE dir,
                calc_version(prev_manifest.version, dt2), now, body)

\* cmd_package raises before it has written modpack.json: the previous one
\* does not load (cli.py:138), the instance holds no forge profile that
\* check_forge accepts, so that cmd_forge is called and raises (cli.py:140-
\* 146), or the package has no name to write (cli.py:195, Package.to_json)
package_raises(ds, dir, reusable) ==
    \/ ds[dir].kind = "corrupt"
    \/ ~reusable
    \/ (ds[dir].kind = "ok" /\ ds[dir].name = None)

\* cmd_package (cli.py:113-200) as far as the packages tree goes:
\* modpack.json is written and, unless from_cmd is set (cli.py:197), the
\* index is rebuilt by cmd_update; dts holds the dates of the four
\* readings, two of cmd_package and two of cmd_update; reusable says
\* whether the instance holds a forge profile with its libraries
cmd_package(idx, ds, dir, body, dts, now, order, from_cmd, reusable) ==
    IF package_raises(ds, dir, reusable)
    THEN [dirs |-> ds, raised |-> TRUE, index |-> idx]
    ELSE IF from_cmd
    THEN [dirs |-> [ds EXCEPT ![dir] =
                       package_of(idx, ds, dir, body, dts[1], dts[2], now)],
          raised |-> FALSE, index |-> idx]
    ELSE cmd_update(idx,
                    [ds EXCEPT ![dir] = package_of(idx, ds, dir, body, dts[1], dts[2], now)],
                    dts[3], dts[4], now, order)

InitIndex ==
    /\ IdleMerge
    /\ IdlePackage
    /\ IdleLibraries
    /\ IdleBump
    /\ IdleCoord
    /\ IdleForm
    /\ index = NoIndex
    /\ dirs \in [DirNames -> InitialModpacks]
    /\ dirs0 = dirs
    /\ today = 1
    /\ clock = 0
    /\ runs = 0
    /\ edits = 0
    /\ streak = 0
    /\ firstIndex = NoIndex
    /\ ipc = "none"

\* the dates n successive readings of datetime.now() may give: midnight
\* may pass between any two of them
DateReadings(n) ==
    {dts \in [1..n -> today..MaxDay] :
        \A i \in 1..(n - 1) : dts[i] <= dts[i + 1]}

\* one run of `supdate update`; the process reads the clock when it starts
\* (a later second than the run before it) and the date when it computes a
\* version
CmdUpdate ==
    /\ runs < MaxRuns
    /\ \E now \in {clock + 1}, order \in DirOrders, dts \in DateReadings(2) :
        /\ now <= MaxClock
        /\ index.exists => dts[1] = today        \* cli.py:250 is not reached
        /\ clock' = now
        /\ today' = dts[2]
        /\ \E r \in {cmd_update(index, dirs, dts[1], dts[2], now, order)} :
               /\ dirs' = r.dirs
               /\ index' = r.index
               /\ ipc' = IF r.raised THEN "raised" ELSE "written"
               /\ streak' = IF r.raised THEN 0
                            ELSE IF dts[2] # today THEN 1
                            ELSE IF streak < 2 THEN streak + 1 ELSE 2
               /\ firstIndex' = IF r.raised THEN firstIndex ELSE index
    /\ dirs0' = dirs
    /\ runs' = runs + 1
    /\ UNCHANGED edits
    /\ UNCHANGED <<mergeVars, pkgVars, libVars, bumpVars, coordVars, formVars>>

\* one run of cmd_package: `supdate package dir` ends with the index build
\* (cli.py:408), a call with from_cmd set does not; the process reads the
\* clock when it starts (a later second than the run before it) and the
\* date when it computes a version
CmdPackage ==
    /\ edits < MaxEdits
    /\ \E dir \in DirNames, body \in Bodies, from_cmd \in BOOLEAN, reusable \in BOOLEAN,
          now \in {clock + 1}, order \in DirOrders, dts \in DateReadings(4) :
        /\ now <= MaxClock
        /\ (from_cmd \/ package_raises(dirs, dir, reusable)) \/ runs < MaxRuns
        \* the readings that are not reached repeat the one before
        /\ index.exists => (dts[1] = today /\ dts[3] = dts[2])
        /\ (dirs[dir].kind = "corrupt" \/ ~reusable) => dts[2] = dts[1]
        \* cmd_update is not reached: nothing is listed, from_cmd is not read
        /\ (from_cmd \/ package_raises(dirs, dir, reusable)) =>
                /\ dts[3] = dts[2] /\ dts[4] = dts[3]
                /\ order = CHOOSE o \in DirOrders : TRUE
        /\ package_raises(dirs, dir, reusable) => ~from_cmd
        /\ clock' = now
        /\ today' = dts[4]
        /\ \E r \in {cmd_package(index, dirs, dir, body, dts, now, order, from_cmd, reusable)} :
               /\ dirs' = r.dirs
               /\ index' = r.index
               /\ ipc' = IF r.raised THEN "raised"
                         ELSE IF from_cmd THEN "packaged" ELSE "written"
               /\ streak' = IF r.raised \/ from_cmd THEN 0 ELSE 1
               /\ firstIndex' = IF r.raised \/ from_cmd THEN firstIndex ELSE index
        /\ IF from_cmd \/ package_raises(dirs, dir, reusable)
           THEN UNCHANGED <<dirs0, runs>>
           ELSE /\ dirs0' = [dirs EXCEPT ![dir] =
                                package_of(index, dirs, dir, body, dts[1], dts[2], now)]
                /\ runs' = runs + 1
    /\ edits' = edits + 1
    /\ UNCHANGED <<mergeVars, pkgVars, libVars, bumpVars, coordVars, formVars>>

\* between two runs a directory of the packages tree is removed, or its
\* modpack.json is damaged
DamageModpack ==
    /\ edits < MaxEdits
    /\ \E dir \in DirNames, m \in DamagedModpacks :
        /\ m # dirs[dir]
        /\ dirs' = [dirs EXCEPT ![dir] = m]
    /\ edits' = edits + 1
    /\ streak' = 0
    /\ UNCHANGED <<index, dirs0, today, clock, runs, firstIndex, ipc>>
    /\ UNCHANGED <<mergeVars, pkgVars, libVars, bumpVars, coordVars, formVars>>

\* midnight passes
NextDay ==
    /\ today < MaxDay
    /\ today' = today + 1
    /\ streak' = 0
    /\ UNCHANGED <<index, dirs, dirs0, clock, runs, edits, firstIndex, ipc>>
    /\ UNCHANGED <<mergeVars, pkgVars, libVars, bumpVars, coordVars, formVars>>

NextIndex == CmdUpdate \/ CmdPackage \/ DamageModpack \/ NextDay

SpecIndex == InitIndex /\ [][NextIndex]_vars

(***************************************************************************)
(* Properties of the index build                                           *)
(***************************************************************************)
\* C3 (as claimed): the second of two successive runs on the same day with
\* no file change in between writes a manifest equal to the first in every
\* field but time, the top-level version included.
C3_SecondManifestIdentical ==
    streak = 2 => [index EXCEPT !.time = 0] = [firstIndex EXCEPT !.time = 0]

\* C3 (amended): the second manifest has the packages (every IndexPackage
\* with its version) and the launcher of the first; its version is the
\* first's with the sequence number increased by one.
C3_SecondManifestSamePackagesNextVersion ==
    streak = 2 =>
        /\ index.packages = firstIndex.packages
        /\ index.launcher = firstIndex.launcher
        /\ \A id \in DOMAIN index.packages :
                index.packages[id].version = firstIndex.packages[id].version
        /\ index.version = Version(today, partition(firstIndex.version).minor[1] + 1)
        /\ index.version # firstIndex.version

C3_Witness ==
    /\ streak = 2
    /\ DOMAIN index.packages = PackageIds
    /\ ipc = "written"

\* the directories that hold a package of the id of dir's package; the one
\* listed last decides the IndexPackage of that id
SameId(ds, dir) == {d \in DirNames : ds[d].kind = "ok" /\ ds[d].id = ds[dir].id}

\* the previous index holds an IndexPackage of the id of dir's package whose
\* sha1 is the hash of dir's modpack.json
SameAsIndexed(ds, dir) ==
    /\ index.exists
    /\ ds[dir].id \in DOMAIN index.packages
    /\ index.packages[ds[dir].id].sha1 = sha1_hexdigest(file_bytes(ds[dir]))

\* C11: in a run of the index build, a package whose modpack.json hashes
\* to the sha1 of its previous IndexPackage keeps its file and its previous
\* IndexPackage; every other package has its file rewritten with the run's
\* version and time, and its IndexPackage carries that version, that time
\* and the sha1 and size of the rewritten file.
C11_CarriedOrRewritten ==
    [][(runs' = runs + 1 /\ ipc' = "written") =>
        \A dir \in DirNames :
            dirs0'[dir].kind = "ok" =>
                /\ IF SameAsIndexed(dirs0', dir)
                   THEN dirs'[dir] = dirs0'[dir]
                   ELSE dirs'[dir] = [dirs0'[dir] EXCEPT !.version = index'.version,
                                                         !.time = clock']
                /\ \E d \in SameId(dirs0', dir) :
                     LET ip == index'.packages[dirs0'[dir].id]
                     IN  IF SameAsIndexed(dirs0', d)
                         THEN ip = index.packages[dirs0'[dir].id]
                         ELSE /\ ip.version = index'.version
                              /\ ip.time = clock'
                              /\ ip.sha1 = sha1_hexdigest(file_bytes(dirs'[d]))
                              /\ ip.size = st_size(file_bytes(dirs'[d]))]_vars

\* a run that carried one package and rewrote another
C11_Witness ==
    /\ ipc = "written"
    /\ firstIndex.exists
    /\ \E id1, id2 \in DOMAIN index.packages :
        /\ id1 \in DOMAIN firstIndex.packages
        /\ index.packages[id1] = firstIndex.packages[id1]
        /\ index.packages[id1].version # index.version
        /\ index.packages[id2].version = index.version
        /\ index.packages[id2].time = clock

\* version a is before version b, by date and then by sequence number
VersionLess(a, b) == a[1] < b[1] \/ (a[1] = b[1] /\ a[3] < b[3])

\* C14: every index build that writes a manifest gives it a version
\* strictly greater (date, then sequence number) than the version of the
\* manifest it replaces, the date never going backwards; no IndexPackage of
\* a manifest has a version greater than the manifest's.
C14_MonotonicVersion ==
    /\ [][(runs' = runs + 1 /\ ipc' = "written" /\ index.exists) =>
            VersionLess(index.version, index'.version)]_vars
    /\ [](index.exists =>
            \A id \in DOMAIN index.packages :
                ~VersionLess(index.version, index.packages[id].version))

\* a manifest written on a later day than the one it replaced, holding a
\* package carried from it
C14_Witness ==
    /\ ipc = "written"
    /\ firstIndex.exists
    /\ firstIndex.version[1] < index.version[1]
    /\ \E id \in DOMAIN index.packages :
            VersionLess(index.packages[id].version, index.version)

\* C21: a run of the index build that raises leaves index.json exactly as
\* it was, and a run changes index.json only when every directory was
\* processed without error: none holds an unreadable modpack.json and the
\* package of every directory that holds one is in the manifest written.
C21_NoPartialIndex ==
    /\ [][(runs' = runs + 1 /\ ipc' = "raised") => index' = index]_vars
    /\ [][(runs' = runs + 1 /\ index' # index) =>
            /\ ipc' = "written"
            /\ \A dir \in DirNames :
                    /\ dirs0'[dir].kind # "corrupt"
                    /\ dirs0'[dir].kind = "ok" =>
                            dirs0'[dir].id \in DOMAIN index'.packages]_vars

\* a run raised on an unreadable modpack.json after it had rewritten
\* another modpack.json with a version newer than the one of the
\* index.json that is still in place
C21_Witness ==
    /\ ipc = "raised"
    /\ index.exists
    /\ \E dir \in DirNames : dirs[dir].kind = "corrupt"
    /\ \E dir \in DirNames :
            /\ dirs[dir].kind = "ok"
            /\ VersionLess(index.version, dirs[dir].version)

\* C28: an index build that finds no index.json and completes writes a
\* manifest of version "{today}.0", and every package indexed in that run
\* has version "{today}.0", today the date of the build.
C28_FirstIndexVersion ==
    [][(runs' = runs + 1 /\ ~index.exists /\ ipc' = "written") =>
        /\ index'.version = Version(today', 0)
        /\ \A id \in DOMAIN index'.packages :
                index'.packages[id].version = Version(today', 0)]_vars

\* index.json agrees with the packages tree: every IndexPackage is the
\* entry of a directory whose modpack.json has that hash and that version,
\* and every directory that holds a readable modpack.json has its package
\* indexed
IndexConsistent(idx, ds) ==
    /\ \A id \in DOMAIN idx.packages :
            \E dir \in DirNames :
                /\ ds[dir].kind = "ok"
                /\ ds[dir].id = id
                /\ idx.packages[id].sha1 = sha1_hexdigest(file_bytes(ds[dir]))
                /\ idx.packages[id].version = ds[dir].version
    /\ \A dir \in DirNames :
            ds[dir].kind = "ok" => ds[dir].id \in DOMAIN idx.packages

\* C29: after every run of the index build, completed or aborted, the
\* persisted index.json agrees with the packages tree as it is on disk:
\* sha1 and version of every IndexPackage are those of the package's
\* modpack.json, and the indexed packages are exactly those of the
\* directories that hold a modpack.json.
C29_IndexMatchesTree ==
    [][(runs' = runs + 1 /\ index'.exists) => IndexConsistent(index', dirs')]_vars

(***************************************************************************)
(* Library resolution: LibraryDependency, Library (profile.py:66-122),     *)
(* ForgeBase (forge.py:43-86), LibrariesBuilder (libraries.py:19-164)      *)
(***************************************************************************)
\* str.replace(old, new) on single tokens
replace(str, old, new) == [i \in DOMAIN str |-> IF str[i] = old THEN new ELSE str[i]]

\* str.count(sep)
count(str, sep) == Cardinality({i \in DOMAIN str : str[i] = sep})

\* str.split(sep): the parts between the separators
RECURSIVE split_from(_, _, _)
split_from(str, sep, part) ==
    IF str = <<>> THEN <<part>>
    ELSE IF str[1] = sep THEN <<part>> \o split_from(Tail(str), sep, <<>>)
    ELSE split_from(Tail(str), sep, Append(part, str[1]))

split(str, sep) == split_from(str, sep, <<>>)

\* sep.join(filter(None, parts)): empty (and None) parts are dropped
RECURSIVE NonEmpty(_)
NonEmpty(parts) ==
    IF parts = <<>> THEN <<>>
    ELSE IF parts[1] = <<>> THEN NonEmpty(Tail(parts))
    ELSE <<parts[1]>> \o NonEmpty(Tail(parts))

join_filter(parts, sep) == Join(NonEmpty(parts), <<sep>>)

\* LibraryDependency(group, artifact, version, tag); tag <<>> is None
LibraryDependency(group, artifact, version, tag) ==
    [group |-> group, artifact |-> artifact, version |-> version, tag |-> tag]

\* profile.py:72-80
as_path(dep) ==
    replace(dep.group, ".", "/") \o <<"/">> \o dep.artifact \o <<"/">> \o dep.version
        \o <<"/">> \o join_filter(<<dep.artifact, dep.version, dep.tag>>, "-") \o <<".jar">>

\* Path.with_stem(f"{path.stem}-{tag}"): the suffix is the last token
with_stem_tag(path, tag) == SubSeq(path, 1, Len(path) - 1) \o <<"-", tag, ".jar">>

\* folder / "libraries" / path
in_libraries(path) == <<"libraries", "/">> \o path

\* Library.__post_init__ (profile.py:98-106): the dependency of a library
\* built from its name alone; the tag of a 4-part name is not kept
dependency_of_name(name) ==
    LET parts == split(name, ":")
    IN  LibraryDependency(parts[1], parts[2], parts[3], <<>>)

NoUrl == [scheme |-> "", netloc |-> "", path |-> <<>>]
NoArtifact == [isNone |-> TRUE, size |-> 0, sha1 |-> [sha1 |-> <<>>],
               path |-> <<>>, url |-> NoUrl]
NoDownloads == [kind |-> "none", artifact |-> NoArtifact, classifiers |-> FALSE]
\* LibraryDownloads(artifact=..., classifiers=...)
LibraryDownloads(artifact, classifiers) ==
    [kind |-> "downloads", artifact |-> artifact, classifiers |-> classifiers]
\* a bare LibraryArtifactDownload stored in Library.downloads
BareArtifact(artifact) ==
    [kind |-> "artifact", artifact |-> artifact, classifiers |-> FALSE]

\* a Namespace is truthy whatever its fields hold (__len__ counts them)
truthy(downloads) == downloads.kind # "none"

Library(name, clientreq, serverreq, downloads, dep) ==
    [name |-> name, clientreq |-> clientreq, serverreq |-> serverreq,
     downloads |-> downloads, dep |-> dep]

\* Library.from_json
LibraryFromJson(name, clientreq, serverreq, downloads) ==
    Library(name, clientreq, serverreq, downloads, dependency_of_name(name))

\* libraries.py:19-20
is_forge_universal(library) ==
    library.dep.group = <<"net", ".", "minecraftforge">> /\ library.dep.artifact = <<"forge">>

\* library.version < LooseVersion("1.13"), for the versions of the model
lt_1_13(version) == version[1] \in {"1.0", "1.12", "1.12.2"}

\* ---- ForgeBase (forge.py:26-86)
DEFAULT_VERSION_FORM ==
    [standard |-> <<"forge", "-", "{mc}", "-", "{forge}">>,
     full |-> <<"forge", "-", "{mc}", "-", "{forge}", "-", "{type}">>]

ForgeMc == "1.16.5"
ForgeVersion == "36.2"

standard_name(form) ==
    replace(replace(form.standard, "{mc}", ForgeMc), "{forge}", ForgeVersion)

get_fullname_with(form, type) ==
    replace(replace(replace(form.full, "{mc}", ForgeMc), "{forge}", ForgeVersion),
            "{type}", type)

universal_named_first(disk) ==
    LET std_file == standard_name(DEFAULT_VERSION_FORM) \o <<".jar">>
        univ_file == get_fullname_with(DEFAULT_VERSION_FORM, "universal") \o <<".jar">>
    IN  IF exists(disk, univ_file) THEN univ_file
        ELSE IF exists(disk, std_file) THEN std_file
        ELSE <<>>

\* forge.py:76-86: the file found, or <<>> when FileNotFoundError is raised
universal(disk) ==
    LET std_file == standard_name(DEFAULT_VERSION_FORM) \o <<".jar">>
        univ_file == get_fullname_with(DEFAULT_VERSION_FORM, "universal") \o <<".jar">>
    IN  IF exists(disk, std_file) THEN std_file
        ELSE IF exists(disk, univ_file) THEN univ_file
        ELSE <<>>

\* ---- urls
LibrariesUrl(scheme) == [scheme |-> scheme, netloc |-> "libraries.myang2.com", path |-> <<>>]

\* the path up to and with its last "/"
RECURSIVE dirname(_)
dirname(path) ==
    IF path = <<>> \/ path[Len(path)] = "/" THEN path
    ELSE dirname(SubSeq(path, 1, Len(path) - 1))

\* urllib.parse.urljoin(url, path) for a relative path: the path replaces
\* the last segment of the url's
urljoin(url, path) ==
    [url EXCEPT !.path = IF url.path = <<>> THEN <<"/">> \o path
                         ELSE dirname(url.path) \o path]

\* ---- LibrariesBuilder
build_artifact_download_of_file(disk, file, path, url) ==
    IF ~exists(disk, file) THEN NoArtifact
    ELSE [isNone |-> FALSE,
          size |-> st_size(disk[file]),
          sha1 |-> sha1_hexdigest(disk[file]),
          path |-> file,
          url |-> urljoin(url, file)]

\* libraries.py:140-146: the record, or NoArtifact when file.stat() raises
build_artifact_download(disk, file, path, url) ==
    IF ~exists(disk, file) THEN NoArtifact
    ELSE [isNone |-> FALSE,
          size |-> st_size(disk[file]),
          sha1 |-> sha1_hexdigest(disk[file]),
          path |-> path,
          url |-> urljoin(url, path)]

copy_library_file_overwrite(tgt, disk, file, path) ==
    [p \in (DOMAIN tgt) \cup {path} |-> IF p = path THEN disk[file] ELSE tgt[p]]

\* libraries.py:148-152
copy_library_file(tgt, disk, file, path) ==
    IF exists(tgt, path) THEN tgt
    ELSE [p \in (DOMAIN tgt) \cup {path} |-> IF p = path THEN disk[file] ELSE tgt[p]]

\* libraries.py:29-37: TRUE when no assertion fails
check_source(ls, disk) ==
    \A i \in DOMAIN ls :
        IF ls[i].clientreq \/ ls[i].serverreq
        THEN exists(disk, in_libraries(as_path(ls[i].dep)))
        ELSE IF truthy(ls[i].downloads)
        THEN ~ls[i].downloads.artifact.isNone \/ ls[i].downloads.classifiers
        ELSE is_forge_universal(ls[i])

check_all_forge_jars_lenient(disk, path) ==
    IF exists(disk, with_stem_tag(path, "universal")) /\ exists(disk, with_stem_tag(path, "server"))
          /\ exists(disk, with_stem_tag(path, "client"))
    THEN "split"
    ELSE "single"

\* libraries.py:154-164
check_target(ls, tgt) ==
    \A i \in DOMAIN ls :
        (ls[i].clientreq \/ ls[i].serverreq) => exists(tgt, as_path(ls[i].dep))

\* a LibraryDownloads read from the json of a bare LibraryArtifactDownload:
\* its own fields are None, the artifact's fields are extra attributes
read_downloads(downloads) ==
    IF downloads.kind = "artifact"
    THEN [kind |-> "downloads", artifact |-> NoArtifact, classifiers |-> FALSE,
          attrs |-> downloads.artifact]
    ELSE downloads

\* Profile.write_to_path then Profile.read_from_path: the private
\* _dependency is not written, every Library is built again from its name
read_libraries(ls) ==
    [i \in DOMAIN ls |->
        LibraryFromJson(ls[i].name, ls[i].clientreq, ls[i].serverreq,
                        read_downloads(ls[i].downloads))]

\* libraries.py:39-50: "split", "single" or "raise"
check_all_forge_jars(disk, path) ==
    IF exists(disk, with_stem_tag(path, "universal")) /\ exists(disk, with_stem_tag(path, "server"))
    THEN IF ~exists(disk, with_stem_tag(path, "client")) THEN "raise" ELSE "split"
    ELSE "single"

\* list.insert(k - 1, x) for the 1-based position k
InsertAt(s, k, x) ==
    IF k > Len(s) THEN Append(s, x)
    ELSE SubSeq(s, 1, k - 1) \o <<x>> \o SubSeq(s, k, Len(s))

Fail(st, err) == [st EXCEPT !.err = err]

\* an entry of the record of what was done, lib the name of the library
Event(ev, lib) == [ev |-> ev, lib |-> lib]

\* libraries.py:109-126, the two variant libraries of a split build
RECURSIVE add_variants(_, _, _, _, _)
add_variants(st, ctx, library, i, tags) ==
    IF tags = <<>> THEN st
    ELSE
      LET tag == tags[1]
          path == as_path(library.dep)
          sfile == in_libraries(with_stem_tag(path, tag))
          spath == with_stem_tag(path, tag)
          download == build_artifact_download(ctx.disk, sfile, spath, ctx.url)
          new_library == Library(library.name \o <<"-", tag>>, FALSE, FALSE,
                                 LibraryDownloads(download, FALSE),
                                 [library.dep EXCEPT !.tag = <<tag>>])
      IN  IF ~exists(ctx.disk, sfile) THEN Fail(st, "AssertionError")
          ELSE add_variants(
                  [st EXCEPT
                     !.target = IF ctx.copy
                                THEN copy_library_file(st.target, ctx.disk, sfile, spath)
                                ELSE st.target,
                     !.libs = InsertAt(st.libs, i + 1, new_library),
                     !.log = Append(st.log, Event("insert", new_library.name)),
                     !.at = [j \in DOMAIN st.at |->
                                IF st.at[j] >= i + 1 THEN st.at[j] + 1 ELSE st.at[j]]],
                  ctx, library, i, Tail(tags))

resolve_nothing(st, ctx, i, file, path) ==
    IF ~exists(ctx.disk, file) THEN Fail(st, "AssertionError")
    ELSE [st EXCEPT !.log = Append(st.log, Event("resolve", st.libs[st.at[i]].name))]

\* libraries.py:132-138: the library's own artifact, from file
resolve(st, ctx, i, file, path) ==
    IF ~exists(ctx.disk, file) THEN Fail(st, "AssertionError")
    ELSE [st EXCEPT
            !.libs[st.at[i]].downloads =
                LibraryDownloads(build_artifact_download(ctx.disk, file, path, ctx.url), FALSE),
            !.log = Append(st.log, Event("resolve", st.libs[st.at[i]].name)),
            !.target = IF ctx.copy THEN copy_library_file(st.target, ctx.disk, file, path)
                       ELSE st.target]

\* the loop of build (libraries.py:100-138) over the copy orig of the list,
\* from its i-th element; st.at maps the elements of orig to their
\* positions in the list
RECURSIVE build_loop(_, _, _, _)
build_loop(st, ctx, orig, i) ==
    IF st.err # "" \/ i > Len(orig) THEN st
    ELSE
      LET library == orig[i]
          path == as_path(library.dep)
          file == in_libraries(path)
      IN  IF library.clientreq \/ library.serverreq
          THEN IF lt_1_13(library.dep.version) /\ truthy(library.downloads)
               THEN Fail(st, "AssertionError")
               ELSE build_loop(resolve(st, ctx, i, file, path), ctx, orig, i + 1)
          ELSE IF is_forge_universal(library)
          THEN LET jars == check_all_forge_jars(ctx.disk, file)
               IN  IF jars = "raise" THEN Fail(st, "Exception")
                   ELSE IF jars = "split"
                   THEN LET st2 == add_variants(st, ctx, library, i, <<"universal", "client">>)
                        IN  IF st2.err # "" THEN st2
                            ELSE build_loop(resolve(st2, ctx, i, file, path), ctx, orig, i + 1)
                   ELSE IF universal(ctx.disk) = <<>>
                        THEN Fail(st, "FileNotFoundError")
                        ELSE build_loop(resolve(st, ctx, i, universal(ctx.disk), path),
                                        ctx, orig, i + 1)
          ELSE build_loop(st, ctx, orig, i + 1)

build_validate_last(ls, tgt, disk, url, copy) ==
    LET st == [libs |-> ls, target |-> tgt, err |-> "", at |-> [j \in DOMAIN ls |-> j],
               log |-> <<>>]
        r == build_loop(st, [disk |-> disk, url |-> url, copy |-> copy], ls, 1)
        checked == [r EXCEPT !.log = Append(r.log, Event("validate", <<>>))]
    IN  IF url.scheme \notin {"http", "https"} THEN Fail(st, "Exception")
        ELSE IF r.err # "" THEN r
        ELSE IF ~check_source(ls, disk) THEN Fail(checked, "AssertionError")
        ELSE checked

\* LibrariesBuilder.build (libraries.py:92-138)
build(ls, tgt, disk, url, copy) ==
    LET st == [libs |-> ls, target |-> tgt, err |-> "", at |-> [j \in DOMAIN ls |-> j],
               log |-> <<Event("validate", <<>>)>>]
    IN  IF ~check_source(ls, disk) THEN Fail(st, "AssertionError")
        ELSE IF url.scheme \notin {"http", "https"} THEN Fail(st, "Exception")
        ELSE build_loop(st, [disk |-> disk, url |-> url, copy |-> copy], ls, 1)

strip_quotes_kept(str) == str

\* str.strip("'\""): quote tokens are removed at both ends
RECURSIVE strip_quotes(_)
strip_quotes(str) ==
    IF str = <<>> THEN str
    ELSE IF str[1] \in {"'", "\""} THEN strip_quotes(Tail(str))
    ELSE IF str[Len(str)] \in {"'", "\""} THEN strip_quotes(SubSeq(str, 1, Len(str) - 1))
    ELSE str

\* install_profile: None, or its data (None, or a dict that may hold the key)
NoInstallProfile == [isNone |-> TRUE, hasData |-> FALSE, hasKey |-> FALSE, client |-> <<>>]
InstallProfile(hasData, hasKey, client) ==
    [isNone |-> FALSE, hasData |-> hasData, hasKey |-> hasKey, client |-> client]

\* libraries.py:69-90, the libraries of the remaining tags
RECURSIVE append_tagged(_, _, _, _, _)
append_tagged(st, disk, url, version, tags) ==
    IF tags = <<>> THEN st
    ELSE
      LET dependency == LibraryDependency(<<"net", ".", "minecraft">>, <<"client">>,
                                          version, <<tags[1]>>)
          path == as_path(dependency)
          file == in_libraries(path)
          library == Library(
                        join_filter(<<dependency.group, dependency.artifact,
                                      dependency.version, dependency.tag>>, ":"),
                        TRUE, FALSE,
                        BareArtifact(build_artifact_download(disk, file, path, url)),
                        dependency)
      IN  IF ~exists(disk, file) THEN Fail(st, "FileNotFoundError")
          ELSE append_tagged([st EXCEPT !.libs = Append(st.libs, library),
                                        !.log = Append(st.log, Event("append", library.name))],
                             disk, url, version, Tail(tags))

update_from_install_profile_fresh(ls, install_profile, disk, url) ==
    LET st == [libs |-> <<>>, err |-> "", log |-> <<>>]
    IN  IF install_profile.isNone \/ ~install_profile.hasData THEN st
        ELSE IF ~install_profile.hasKey THEN st
        ELSE append_tagged(st, disk, url,
                           <<ForgeMc, "-">> \o strip_quotes(install_profile.client),
                           <<"extra", "slim", "srg">>)

\* LibrariesBuilder.update_from_install_profile (libraries.py:52-90)
update_from_install_profile(ls, install_profile, disk, url) ==
    LET st == [libs |-> ls, err |-> "", log |-> <<>>]
    IN  IF install_profile.isNone \/ ~install_profile.hasData THEN st
        ELSE IF ~install_profile.hasKey THEN st
        ELSE append_tagged(st, disk, url,
                           <<ForgeMc, "-">> \o strip_quotes(install_profile.client),
                           <<"extra", "slim", "srg">>)

(***************************************************************************)
(* The forge build scenario: a LibrariesBuilder (libraries.py:23-27) and   *)
(* the calls cmd_forge makes on it (cli.py:92-96); `supdate forge` itself  *)
(* (cli.py:77-97) raises before it has constructed one                     *)
(***************************************************************************)
LibName(group, artifact, version) == group \o <<":">> \o artifact \o <<":">> \o version

ForgeLibVersion == <<ForgeMc, "-", ForgeVersion>>

\* the artifact record a vanilla profile gives for one of its libraries
VanillaArtifact(name) ==
    [isNone |-> FALSE, size |-> 1, sha1 |-> [sha1 |-> <<"vanilla">>],
     path |-> as_path(dependency_of_name(name)),
     url |-> [scheme |-> "https", netloc |-> "libraries.minecraft.net",
              path |-> <<"/">> \o as_path(dependency_of_name(name))]]

ForgeLib ==
    LibraryFromJson(LibName(<<"net", ".", "minecraftforge">>, <<"forge">>, ForgeLibVersion),
                    FALSE, FALSE, NoDownloads)
ReqLib ==
    LibraryFromJson(LibName(<<"com", ".", "x">>, <<"req">>, <<"2.0">>), TRUE, FALSE, NoDownloads)
OldLib ==
    LibraryFromJson(LibName(<<"net", ".", "minecraft">>, <<"launchwrapper">>, <<"1.12">>),
                    FALSE, TRUE, NoDownloads)
OldLibDl ==
    [OldLib EXCEPT !.downloads = LibraryDownloads(VanillaArtifact(OldLib.name), FALSE)]
VanillaLib ==
    LET name == LibName(<<"com", ".", "x">>, <<"dl">>, <<"2.0">>)
    IN  LibraryFromJson(name, FALSE, FALSE, LibraryDownloads(VanillaArtifact(name), FALSE))
EmptyDlLib ==
    LibraryFromJson(LibName(<<"com", ".", "x">>, <<"nodl">>, <<"2.0">>), FALSE, FALSE,
                    LibraryDownloads(NoArtifact, FALSE))
BadLib ==
    LibraryFromJson(LibName(<<"com", ".", "x">>, <<"bad">>, <<"1.0">>), FALSE, FALSE, NoDownloads)

ProfileLibraries == {ForgeLib, ReqLib, OldLib, OldLibDl, VanillaLib, EmptyDlLib, BadLib}

\* a profile's libraries carry distinct names
ProfileLists ==
    {ls \in SeqsUpTo(ProfileLibraries, MaxProfileLibs) :
        \A i, j \in DOMAIN ls : i # j => ls[i].name # ls[j].name}

\* the install profile's MCP_VERSION.client, quoted as the installer writes it
McpClient == <<"'", "20200515", "'">>
InstallProfiles ==
    {NoInstallProfile, InstallProfile(FALSE, FALSE, <<>>), InstallProfile(TRUE, FALSE, <<>>),
     InstallProfile(TRUE, TRUE, McpClient)}

McpFile(tag) ==
    in_libraries(as_path(LibraryDependency(<<"net", ".", "minecraft">>, <<"client">>,
                                           <<ForgeMc, "-">> \o strip_quotes(McpClient), <<tag>>)))

\* the files of the forge folder a library is looked up in
FilesOf(library) ==
    LET file == in_libraries(as_path(library.dep))
    IN  IF is_forge_universal(library)
        THEN {file, with_stem_tag(file, "universal"), with_stem_tag(file, "server"),
              with_stem_tag(file, "client"),
              standard_name(DEFAULT_VERSION_FORM) \o <<".jar">>,
              get_fullname_with(DEFAULT_VERSION_FORM, "universal") \o <<".jar">>}
        ELSE IF library.clientreq \/ library.serverreq THEN {file}
        ELSE {}

\* every file holds bytes of its own
BytesOf(file) == <<"bytes of">> \o file
FileSystem(S) == [file \in S |-> BytesOf(file)]

ForgeFolders(ls, install_profile) ==
    LET own == UNION {FilesOf(ls[i]) : i \in DOMAIN ls}
        mcp == IF install_profile.hasKey
               THEN {{}, {McpFile("extra"), McpFile("slim")},
                     {McpFile("extra"), McpFile("slim"), McpFile("srg")}}
               ELSE {{}}
    IN  {FileSystem(S \cup M) : S \in SUBSET own, M \in mcp}

\* the target libraries folder: empty, or holding an older forge jar
Targets == {<<>>, [file \in {as_path(ForgeLib.dep)} |-> <<"stale">>]}

\* the forge build into an empty target: an install profile is met with
\* this run alone
DefaultRun == <<"https", TRUE, <<>>>>

\* base url, copy flag and target folder of a run
Runs ==
    {<<"https", TRUE, t>> : t \in Targets} \cup {<<"https", FALSE, <<>>>>, <<"ftp", TRUE, <<>>>>}

\* LibrariesBuilder(profile, folder, forge_base) (libraries.py:23-27) over
\* a profile, the forge folder and a ForgeBase of that folder, and the
\* arguments of the calls to come
InitLibraries ==
    /\ IdleMerge
    /\ IdlePackage
    /\ IdleIndex
    /\ IdleBump
    /\ IdleCoord
    /\ IdleForm
    /\ plibs \in ProfileLists
    /\ plibs0 = plibs
    /\ install \in InstallProfiles
    /\ fdisk \in ForgeFolders(plibs, install)
    /\ \E run \in Runs :
        /\ install = NoInstallProfile \/ run = DefaultRun
        /\ liburl = LibrariesUrl(run[1])
        /\ copyflag = run[2]
        /\ target = run[3]
    /\ lerr = ""
    /\ lpc = "start"
    /\ target0 = target
    /\ llog = <<>>
    /\ pwritten = <<>>
    /\ lcheck = "unset"

\* libraries.update_from_install_profile(install_profile, url)
\* (libraries.py:52-90, called at cli.py:93)
UpdateFromInstallProfile ==
    /\ lpc = "start"
    /\ LET st == update_from_install_profile(plibs, install, fdisk, liburl)
       IN  /\ plibs0' = plibs
           /\ plibs' = st.libs
           /\ lerr' = st.err
           /\ llog' = llog \o st.log
           /\ lpc' = IF st.err = "" THEN "updated" ELSE "update raised"
    /\ UNCHANGED <<fdisk, target, install, liburl, copyflag, target0, pwritten, lcheck>>
    /\ UNCHANGED <<mergeVars, pkgVars, idxVars, bumpVars, coordVars, formVars>>

\* libraries.build(url, libraries_path, copy) (libraries.py:92-138, called
\* at cli.py:94)
LibrariesBuild ==
    /\ lpc \in {"start", "updated"}
    /\ LET st == build(plibs, target, fdisk, liburl, copyflag)
       IN  /\ plibs0' = plibs
           /\ plibs' = st.libs
           /\ target' = st.target
           /\ lerr' = st.err
           /\ llog' = llog \o st.log
           /\ lpc' = IF st.err = "" THEN "built" ELSE "build raised"
    /\ target0' = target
    /\ UNCHANGED <<fdisk, install, liburl, copyflag, pwritten, lcheck>>
    /\ UNCHANGED <<mergeVars, pkgVars, idxVars, bumpVars, coordVars, formVars>>

\* forge_profile.write_to_path(forge_profile_path) (typed.py:124-127,
\* called at cli.py:96), reached when neither call before it raised
WriteProfile ==
    /\ lpc = "built"
    /\ pwritten' = <<plibs>>
    /\ llog' = Append(llog, Event("write", <<>>))
    /\ lpc' = "written"
    /\ UNCHANGED <<plibs, plibs0, fdisk, target, install, liburl, copyflag, lerr, target0,
                   lcheck>>
    /\ UNCHANGED <<mergeVars, pkgVars, idxVars, bumpVars, coordVars, formVars>>

\* check_forge (cli.py:99-111) in a later run: the profile file is read
\* back and its libraries are looked up in the target folder
CheckForge ==
    /\ lpc = "written"
    /\ lcheck' = check_target(read_libraries(pwritten[1]), target)
    /\ lpc' = "checked"
    /\ UNCHANGED <<plibs, plibs0, fdisk, target, install, liburl, copyflag, lerr, target0,
                   llog, pwritten>>
    /\ UNCHANGED <<mergeVars, pkgVars, idxVars, bumpVars, coordVars, formVars>>

\* `supdate forge` (cmd_forge, cli.py:77-97): the installer is constructed
\* with the form string as its type (cli.py:85-86), and install() raises
\* AttributeError when it builds the name of the installer's jar
\* (forge.py:66, from cli.py:87), on every input: nothing is downloaded,
\* no builder is constructed, nothing is resolved, copied or written
CmdForge ==
    /\ lpc = "start"
    /\ lerr' = "AttributeError"
    /\ lpc' = "forge raised"
    /\ UNCHANGED <<plibs, plibs0, fdisk, target, install, liburl, copyflag, target0,
                   llog, pwritten, lcheck>>
    /\ UNCHANGED <<mergeVars, pkgVars, idxVars, bumpVars, coordVars, formVars>>

NextLibraries ==
    UpdateFromInstallProfile \/ LibrariesBuild \/ WriteProfile \/ CheckForge \/ CmdForge

SpecLibraries == InitLibraries /\ [][NextLibraries]_vars

(***************************************************************************)
(* Properties of library resolution                                        *)
(***************************************************************************)
\* the split-build case of a loader universal library
SplitBuild(library) ==
    LET file == in_libraries(as_path(library.dep))
    IN  /\ is_forge_universal(library)
        /\ exists(fdisk, with_stem_tag(file, "universal"))
        /\ exists(fdisk, with_stem_tag(file, "server"))
        /\ exists(fdisk, with_stem_tag(file, "client"))
        /\ ~exists(fdisk, file)

\* the list without its loader universal libraries
RECURSIVE WithoutForge(_)
WithoutForge(ls) ==
    IF ls = <<>> THEN <<>>
    ELSE IF is_forge_universal(ls[1]) THEN WithoutForge(Tail(ls))
    ELSE <<ls[1]>> \o WithoutForge(Tail(ls))

\* nothing but the loader universal libraries can make the build fail
OthersResolve == build(WithoutForge(plibs0), target, fdisk, liburl, copyflag).err = ""

\* entry k of the list is the variant tag of library, with the size and
\* sha1 of the variant file
IsVariant(k, library, tag) ==
    LET sfile == with_stem_tag(in_libraries(as_path(library.dep)), tag)
    IN  /\ k \in DOMAIN plibs
        /\ plibs[k].name = library.name \o <<"-", tag>>
        /\ plibs[k].downloads.kind = "downloads"
        /\ ~plibs[k].downloads.artifact.isNone
        /\ plibs[k].downloads.artifact.size = st_size(fdisk[sfile])
        /\ plibs[k].downloads.artifact.sha1 = sha1_hexdigest(fdisk[sfile])

\* C4: when the universal, server and client files of a loader universal
\* library exist and the combined jar does not, build() completes without
\* error and exactly the two entries <name>-universal and <name>-client
\* follow the library's own entry, each with the size and sha1 of its file.
C4_SplitBuildSynthesis ==
    (lpc \in {"built", "build raised"} /\ OthersResolve) =>
        \A i \in DOMAIN plibs0 :
            SplitBuild(plibs0[i]) =>
                /\ lerr = ""
                /\ Len(plibs) = Len(plibs0) + 2
                /\ \E k \in DOMAIN plibs :
                    /\ plibs[k].name = plibs0[i].name
                    /\ \E t1, t2 \in {"universal", "client"} :
                        /\ t1 # t2
                        /\ IsVariant(k + 1, plibs0[i], t1)
                        /\ IsVariant(k + 2, plibs0[i], t2)

\* the three valid states of a library: flagged required with its file
\* present, carrying a download, the loader universal placeholder
IsRequiredPresent(library) ==
    (library.clientreq \/ library.serverreq)
        /\ exists(fdisk, in_libraries(as_path(library.dep)))
IsDownloadable(library) ==
    \/ library.downloads.kind = "artifact"
    \/ library.downloads.kind = "downloads"
        /\ (~library.downloads.artifact.isNone \/ library.downloads.classifiers)
ValidStates(library) ==
    {x \in {"required", "downloadable", "universal"} :
        \/ x = "required" /\ IsRequiredPresent(library)
        \/ x = "downloadable" /\ IsDownloadable(library)
        \/ x = "universal" /\ is_forge_universal(library)}

\* C15: when some library of the list is not in exactly one of the three
\* valid states (in none, or in two at once), build() raises and has
\* resolved no library, copied no file and added no library.
C15_ExactlyOneStateOrRaise ==
    (lpc \in {"built", "build raised"}
        /\ \E i \in DOMAIN plibs0 : Cardinality(ValidStates(plibs0[i])) # 1) =>
        /\ lerr # ""
        /\ plibs = plibs0
        /\ target = target0

\* the positions of the record that hold an event of one of the kinds
EventsOf(kinds) == {i \in DOMAIN llog : llog[i].ev \in kinds}

\* the resolutions of the loader universal library, and of the others
IsSpecialName(name) == is_forge_universal([dep |-> dependency_of_name(name)])
SpecialResolved == {i \in EventsOf({"resolve"}) : IsSpecialName(llog[i].lib)}
RequiredResolved == {i \in EventsOf({"resolve"}) : ~IsSpecialName(llog[i].lib)}

\* the position of the library of a name in the list given to build()
PositionOf(name) == CHOOSE k \in DOMAIN plibs0 : plibs0[k].name = name

\* C16 (as claimed): the list is validated before any library is added or
\* resolved, every required library is resolved before the special one,
\* and the libraries from the install metadata are added after the special
\* library was resolved.
C16_ValidateResolveSynthesize ==
    /\ \A i \in EventsOf({"validate"}), j \in EventsOf({"append", "insert", "resolve"}) : i < j
    /\ \A i \in RequiredResolved, j \in SpecialResolved : i < j
    /\ \A i \in SpecialResolved, j \in EventsOf({"append"}) : i < j

\* C16 (amended): the libraries from the install metadata are appended
\* first; the whole list is then validated before any library is resolved
\* or inserted; the libraries are resolved in one pass in the order of the
\* list, required and special alike; the profile is written last.
C16_SynthesizeValidateResolve ==
    /\ \A i \in EventsOf({"append"}), j \in EventsOf({"validate"}) : i < j
    /\ \A i \in EventsOf({"validate"}), j \in EventsOf({"insert", "resolve"}) : i < j
    /\ lpc \in {"built", "build raised", "written"} =>
          \A i, j \in EventsOf({"resolve"}) :
              i < j => PositionOf(llog[i].lib) < PositionOf(llog[j].lib)
    /\ \A i \in EventsOf({"write"}) : i = Len(llog) /\ lerr = ""

\* a forge build that appended, validated, resolved a special library
\* before a required one, and wrote the profile
C16_Witness ==
    /\ lpc = "written"
    /\ EventsOf({"append"}) # {}
    /\ \E i \in SpecialResolved, j \in RequiredResolved :
          i < j /\ llog[j].lib = ReqLib.name

\* the universal and server files of a loader universal library exist and
\* its client file does not
InconsistentSplit(library) ==
    LET file == in_libraries(as_path(library.dep))
    IN  /\ is_forge_universal(library)
        /\ exists(fdisk, with_stem_tag(file, "universal"))
        /\ exists(fdisk, with_stem_tag(file, "server"))
        /\ ~exists(fdisk, with_stem_tag(file, "client"))

\* C17: when the universal and server files of the loader universal library
\* exist and the client file does not, build() raises (the error of the
\* jar check when the build gets to the library), no variant library is
\* inserted, and the profile is not written.
C17_InconsistentSplitRaises ==
    (lpc \in {"built", "build raised", "written"}
        /\ \E i \in DOMAIN plibs0 : InconsistentSplit(plibs0[i])) =>
        /\ lpc = "build raised"
        /\ lerr # ""
        /\ EventsOf({"insert"}) = {}
        /\ Len(plibs) = Len(plibs0)
        /\ pwritten = <<>>
        /\ (check_source(plibs0, fdisk) /\ liburl.scheme = "https"
                /\ InconsistentSplit(plibs0[1])) => lerr = "Exception"

\* the inconsistent split build was met after another library was resolved
C17_Witness ==
    /\ lpc = "build raised"
    /\ lerr = "Exception"
    /\ \E i \in DOMAIN plibs0 : InconsistentSplit(plibs0[i])
    /\ EventsOf({"resolve"}) # {}

StdFile == standard_name(DEFAULT_VERSION_FORM) \o <<".jar">>
UnivFile == get_fullname_with(DEFAULT_VERSION_FORM, "universal") \o <<".jar">>

\* the library of the list after the build that has the name
Resolved(name) == plibs[CHOOSE k \in DOMAIN plibs : plibs[k].name = name]

\* the library's downloads.artifact has the size and sha1 of the file
HasArtifactOf(library, file) ==
    /\ library.downloads.kind = "downloads"
    /\ ~library.downloads.artifact.isNone
    /\ library.downloads.artifact.size = st_size(fdisk[file])
    /\ library.downloads.artifact.sha1 = sha1_hexdigest(fdisk[file])

\* the loader universal library is resolved from the single universal
\* file, the standard-named one first; without either the build raises a
\* missing-file error and the library is left as it was
SingleFallback(library) ==
    IF exists(fdisk, StdFile)
    THEN lerr = "" /\ HasArtifactOf(Resolved(library.name), StdFile)
    ELSE IF exists(fdisk, UnivFile)
    THEN lerr = "" /\ HasArtifactOf(Resolved(library.name), UnivFile)
    ELSE /\ lerr = "FileNotFoundError"
         /\ Resolved(library.name) = library

AllVariants(library) ==
    LET file == in_libraries(as_path(library.dep))
    IN  \A tag \in {"universal", "server", "client"} : exists(fdisk, with_stem_tag(file, tag))

\* C18 (as claimed): when the three variant files are not all present, the
\* loader universal library is resolved from the single universal file, or
\* the build raises a missing-file error when there is none.
C18_FallbackUnlessAllVariants ==
    (lpc \in {"built", "build raised"} /\ OthersResolve) =>
        \A i \in DOMAIN plibs0 :
            (is_forge_universal(plibs0[i]) /\ ~AllVariants(plibs0[i])) =>
                SingleFallback(plibs0[i])

\* C18 (amended): the same when the universal and server variant files are
\* not both present.
C18_FallbackUnlessUniversalAndServer ==
    (lpc \in {"built", "build raised"} /\ OthersResolve) =>
        \A i \in DOMAIN plibs0 :
            (is_forge_universal(plibs0[i])
                /\ check_all_forge_jars(fdisk, in_libraries(as_path(plibs0[i].dep))) = "single") =>
                SingleFallback(plibs0[i])

\* resolved from the '-universal' named jar, a client variant file alone
\* being present
C18_Witness ==
    /\ lpc = "built"
    /\ \E i \in DOMAIN plibs0 :
        /\ is_forge_universal(plibs0[i])
        /\ exists(fdisk, with_stem_tag(in_libraries(as_path(plibs0[i].dep)), "client"))
        /\ check_all_forge_jars(fdisk, in_libraries(as_path(plibs0[i].dep))) = "single"
        /\ ~exists(fdisk, StdFile)
        /\ HasArtifactOf(Resolved(plibs0[i].name), UnivFile)

\* the relative path of the coordinate group:artifact:version[:tag] that
\* is the library's name: group/with/slashes/artifact/version/
\* artifact-version[-tag].jar
ExpectedPath(name) ==
    LET parts == split(name, ":")
        stem == parts[2] \o <<"-">> \o parts[3]
                    \o (IF Len(parts) = 4 THEN <<"-">> \o parts[4] ELSE <<>>)
    IN  [i \in DOMAIN parts[1] |-> IF parts[1][i] = "." THEN "/" ELSE parts[1][i]]
            \o <<"/">> \o parts[2] \o <<"/">> \o parts[3] \o <<"/">> \o stem \o <<".jar">>

IsRequired(library) == library.clientreq \/ library.serverreq

\* C19: after build() completes every library flagged clientreq or
\* serverreq has a downloads.artifact with the relative path of its
\* coordinate, the size and sha1 of the file at libraries/<path> and the
\* url base_url/<path>; when the file of a flagged library is missing the
\* build raises and attaches nothing.
C19_RequiredResolved ==
    /\ lpc = "built" =>
        \A k \in DOMAIN plibs :
            IsRequired(plibs[k]) =>
                LET path == ExpectedPath(plibs[k].name)
                IN  /\ HasArtifactOf(plibs[k], <<"libraries", "/">> \o path)
                    /\ plibs[k].downloads.artifact.path = path
                    /\ plibs[k].downloads.artifact.url =
                          [scheme |-> liburl.scheme, netloc |-> liburl.netloc,
                           path |-> <<"/">> \o path]
    /\ (lpc \in {"built", "build raised"}
          /\ \E i \in DOMAIN plibs0 :
                /\ IsRequired(plibs0[i])
                /\ ~exists(fdisk, <<"libraries", "/">> \o ExpectedPath(plibs0[i].name))) =>
        /\ lerr # ""
        /\ plibs = plibs0

\* a completed build with a required library of the profile and the
\* tagged libraries of the install profile
C19_Witness ==
    /\ lpc = "built"
    /\ \E k \in DOMAIN plibs : plibs[k].name = ReqLib.name
    /\ \E k \in DOMAIN plibs : IsRequired(plibs[k]) /\ count(plibs[k].name, ":") = 3

\* the name net.minecraft:client:<mc>-<mcp>:<tag>
TaggedName(tag) ==
    <<"net", ".", "minecraft", ":", "client", ":", ForgeMc, "-", "20200515", ":", tag>>

\* C20: update_from_install_profile leaves the list as it is when there is
\* no install profile, no data or no MCP_VERSION key; with the key and the
\* three files it appends exactly the libraries tagged extra, slim, srg, in
\* that order, after the entries of the list, which stay as they are; with
\* the key and a file missing it raises.
C20_UpdateFromInstallProfile ==
    lpc \in {"updated", "update raised"} =>
        /\ (install.isNone \/ ~install.hasData \/ ~install.hasKey) =>
              lpc = "updated" /\ plibs = plibs0
        /\ (install.hasKey /\ \A tag \in {"extra", "slim", "srg"} : exists(fdisk, McpFile(tag))) =>
              /\ lpc = "updated"
              /\ Len(plibs) = Len(plibs0) + 3
              /\ SubSeq(plibs, 1, Len(plibs0)) = plibs0
              /\ plibs[Len(plibs0) + 1].name = TaggedName("extra")
              /\ plibs[Len(plibs0) + 2].name = TaggedName("slim")
              /\ plibs[Len(plibs0) + 3].name = TaggedName("srg")
        /\ (install.hasKey /\ \E tag \in {"extra", "slim", "srg"} : ~exists(fdisk, McpFile(tag))) =>
              lpc = "update raised" /\ lerr # ""

\* three libraries appended to a list that was not empty
C20_Witness ==
    /\ lpc = "updated"
    /\ plibs0 # <<>>
    /\ Len(plibs) = Len(plibs0) + 3


\* the libraries the build resolved or inserted: their artifacts were built
\* from a file of the forge folder
BuiltByBuild ==
    {i \in DOMAIN plibs :
        \E e \in EventsOf({"resolve", "insert"}) : llog[e].lib = plibs[i].name}

\* C24: build(copy=true) copies the file of a resolved artifact to
\* <target>/<path> only when nothing exists there: every file the target
\* held before the build is there afterwards with the same bytes, every
\* file the build added is at the path of an artifact it resolved and
\* holds the bytes of that artifact's file, and after a completed build
\* every resolved artifact has a file at its path; with copy=false the
\* target is as it was.
C24_ExistenceGatedCopy ==
    lpc \in {"built", "build raised"} =>
        /\ \A p \in DOMAIN target0 : p \in DOMAIN target /\ target[p] = target0[p]
        /\ ~copyflag => target = target0
        /\ \A p \in (DOMAIN target) \ (DOMAIN target0) :
                \E i \in BuiltByBuild :
                    /\ plibs[i].downloads.artifact.path = p
                    /\ plibs[i].downloads.artifact.sha1 = sha1_hexdigest(target[p])
        /\ (copyflag /\ lpc = "built") =>
                \A i \in BuiltByBuild : plibs[i].downloads.artifact.path \in DOMAIN target

\* a build that copied the file of one library and left alone the stale
\* file it found at the destination of another
C24_Witness ==
    /\ lpc = "built"
    /\ copyflag
    /\ (DOMAIN target) \ (DOMAIN target0) # {}
    /\ \E i \in BuiltByBuild :
            LET a == plibs[i].downloads.artifact
            IN  /\ a.path \in DOMAIN target0
                /\ target[a.path] = <<"stale">>
                /\ a.sha1 # sha1_hexdigest(target[a.path])

\* what identifies a library of the list: its name, flags and coordinate
Identity(library) ==
    [name |-> library.name, clientreq |-> library.clientreq,
     serverreq |-> library.serverreq, dep |-> library.dep]

\* the elements of a occur in b in the same order
RECURSIVE IsSubsequence(_, _)
IsSubsequence(a, b) ==
    IF a = <<>> THEN TRUE
    ELSE IF b = <<>> THEN FALSE
    ELSE IF a[1] = b[1] THEN IsSubsequence(Tail(a), Tail(b))
    ELSE IsSubsequence(a, Tail(b))

\* C25: after update_from_install_profile and after build(), also when
\* the call raised, every library the list held before the call is still
\* in the list, in the same relative order, and the list is not shorter.
C25_ListOnlyGrows ==
    lpc \in {"updated", "update raised", "built", "build raised"} =>
        /\ Len(plibs) >= Len(plibs0)
        /\ IsSubsequence([i \in DOMAIN plibs0 |-> Identity(plibs0[i])],
                         [i \in DOMAIN plibs |-> Identity(plibs[i])])

\* a build that inserted the two variant libraries between two libraries
\* of the list
C25_Witness ==
    /\ lpc = "built"
    /\ Len(plibs0) = 2
    /\ Len(plibs) = 4
    /\ plibs[1].name = plibs0[1].name
    /\ plibs[4].name = plibs0[2].name
    /\ plibs[2].name \notin {plibs0[i].name : i \in DOMAIN plibs0}

\* C27: after a forge build with copy=true has completed and its profile
\* was written, check_target on the profile read back from the file
\* returns true, the target folder being as the build left it; also for
\* profiles that hold the tagged libraries of the install metadata.
C27_RebuiltProfileReusable ==
    (lpc = "checked" /\ copyflag) => lcheck = TRUE

ServerAbsent(library) ==
    /\ is_forge_universal(library)
    /\ ~exists(fdisk, with_stem_tag(in_libraries(as_path(library.dep)), "server"))

\* C30: when the server variant file of the loader universal library is
\* absent, whatever other variant files exist, the build raises no
\* split-build error and inserts no variant library, and the library is
\* resolved from the single universal file (a missing-file error when
\* there is none).
C30_ServerAbsentFallsBack ==
    (lpc \in {"built", "build raised"} /\ OthersResolve) =>
        \A i \in DOMAIN plibs0 :
            ServerAbsent(plibs0[i]) =>
                /\ lerr # "Exception"
                /\ EventsOf({"insert"}) = {}
                /\ Len(plibs) = Len(plibs0)
                /\ SingleFallback(plibs0[i])

\* the universal and client variant files exist, the server file does
\* not: the library was resolved from the standard-named jar and nothing
\* was inserted
C30_Witness ==
    /\ lpc = "built"
    /\ Len(plibs) = Len(plibs0)
    /\ \E i \in DOMAIN plibs0 :
            LET file == in_libraries(as_path(plibs0[i].dep))
            IN  /\ ServerAbsent(plibs0[i])
                /\ exists(fdisk, with_stem_tag(file, "universal"))
                /\ exists(fdisk, with_stem_tag(file, "client"))
                /\ exists(fdisk, StdFile)
                /\ HasArtifactOf(plibs[i], StdFile)

(***************************************************************************)
(* Library coordinates: Library.__post_init__, Library.path                *)
(* (profile.py:98-122), LibraryDependency.as_path (profile.py:72-80)       *)
(***************************************************************************)
\* the i-th colon-separated part of a name of the scenario
PartsAt(i) ==
    CASE i = 1 -> {<<"g">>, <<"com", ".", "x">>}
      [] i = 2 -> {<<"a">>, <<"b">>}
      [] i = 3 -> {<<"1.0">>, <<"2.0">>}
      [] i = 4 -> {<<"client">>, <<"srg">>}
      [] OTHER -> {<<"x">>, <<"y">>}

\* the names of 1 .. n parts
RECURSIVE NamesOfParts(_)
NamesOfParts(n) ==
    IF n = 1 THEN PartsAt(1)
    ELSE {name \o <<":">> \o part : name \in NamesOfParts(n - 1), part \in PartsAt(n)}

CoordNames == UNION {NamesOfParts(n) : n \in 1..MaxParts}

\* profile.py:99-100: assert self.name.count(":") in (2, 3)
name_accepted(name) == count(name, ":") \in {2, 3}

InitCoord ==
    /\ IdleMerge
    /\ IdlePackage
    /\ IdleIndex
    /\ IdleLibraries
    /\ IdleBump
    /\ IdleForm
    /\ cname \in CoordNames
    /\ cdep = <<>>
    /\ cpath = <<>>
    /\ cpc = "start"

\* Library.from_json({"name": cname}) followed by Library.path
ParseLibrary ==
    /\ cpc = "start"
    /\ IF name_accepted(cname)
       THEN LET library == LibraryFromJson(cname, FALSE, FALSE, NoDownloads)
            IN  /\ cdep' = library.dep
                /\ cpath' = as_path(library.dep)
                /\ cpc' = "parsed"
       ELSE /\ cpc' = "raised"
            /\ UNCHANGED <<cdep, cpath>>
    /\ UNCHANGED cname
    /\ UNCHANGED <<mergeVars, pkgVars, idxVars, libVars, bumpVars, formVars>>

NextCoord == ParseLibrary

SpecCoord == InitCoord /\ [][NextCoord]_vars

(***************************************************************************)
(* Properties of library coordinates                                       *)
(***************************************************************************)
\* group-with-slashes/artifact/version/artifact-version[-tag].jar
CoordPath(group, artifact, version, tag) ==
    replace(group, ".", "/") \o <<"/">> \o artifact \o <<"/">> \o version \o <<"/">>
        \o artifact \o <<"-">> \o version
        \o (IF tag = <<>> THEN <<>> ELSE <<"-">> \o tag) \o <<".jar">>

\* C23: a name of exactly 3 colon-separated parts gives the coordinate
\* (group, artifact, version) with no tag, a name of exactly 4 parts gives
\* (group, artifact, version, tag) with the tag kept, any other number of
\* parts fails; the path is group-with-slashes/artifact/version/
\* artifact-version.jar without a tag and .../artifact-version-tag.jar with
\* one.
C23_CoordinateParsing ==
    cpc \in {"parsed", "raised"} =>
        LET parts == split(cname, ":")
        IN  /\ Len(parts) = 3 =>
                    /\ cpc = "parsed"
                    /\ cdep = LibraryDependency(parts[1], parts[2], parts[3], <<>>)
                    /\ cpath = CoordPath(parts[1], parts[2], parts[3], <<>>)
            /\ Len(parts) = 4 =>
                    /\ cpc = "parsed"
                    /\ cdep = LibraryDependency(parts[1], parts[2], parts[3], parts[4])
                    /\ cpath = CoordPath(parts[1], parts[2], parts[3], parts[4])
            /\ Len(parts) \notin {3, 4} => cpc = "raised"


(***************************************************************************)
(* Naming form selection: get_version_form (forge.py:26-36),               *)
(* get_forge_version_form (providers/forge.py:46-56),                      *)
(* VersionRange (versions.py:6-75)                                         *)
(***************************************************************************)
\* A dotted numeric version is the sequence of its components, which is
\* what LooseVersion parses it to: "1.7.10" is <<1, 7, 10>>.
\* LooseVersion comparison is the comparison of the component lists:
\* -1, 0 or 1
RECURSIVE loose_cmp(_, _)
loose_cmp(a, b) ==
    IF a = <<>> /\ b = <<>> THEN 0
    ELSE IF a = <<>> THEN -1
    ELSE IF b = <<>> THEN 1
    ELSE IF a[1] < b[1] THEN -1
    ELSE IF a[1] > b[1] THEN 1
    ELSE loose_cmp(Tail(a), Tail(b))

\* VersionRange("[left, right]") and the other bracket forms
VersionRange(left, right, lopen, ropen) ==
    [left |-> left, right |-> right, lopen |-> lopen, ropen |-> ropen]

contains_right_open(range, item) ==
    /\ ~(loose_cmp(item, range.left) < 0 \/ (range.lopen /\ loose_cmp(item, range.left) = 0))
    /\ ~(loose_cmp(item, range.right) >= 0)

\* VersionRange.__contains__ (versions.py:65-75) of a range with both ends
contains(range, item) ==
    /\ ~(loose_cmp(item, range.left) < 0 \/ (range.lopen /\ loose_cmp(item, range.left) = 0))
    /\ ~(loose_cmp(item, range.right) > 0 \/ (range.ropen /\ loose_cmp(item, range.right) = 0))

Form(standard, full) == [standard |-> standard, full |-> full]

\* forge.py:27-30, in the order of the dict
SPECIFIC_VERSION_FORMS ==
    << [range |-> VersionRange(<<1, 7>>, <<1, 7, 10>>, FALSE, FALSE),
        form |-> Form(<<"forge", "-", "{mc}", "-", "{forge}", "-", "{mc}">>,
                      <<"forge", "-", "{mc}", "-", "{forge}", "-", "{mc}", "-", "{type}">>)],
       [range |-> VersionRange(<<1, 19>>, <<1, 19, 4>>, FALSE, FALSE),
        form |-> Form(<<"{mc}", "-", "{forge}">>, DEFAULT_VERSION_FORM.full)] >>

\* forge.py:31-36: the form of the first range that holds v
RECURSIVE get_version_form_from(_, _)
get_version_form_from(v, i) ==
    IF i > Len(SPECIFIC_VERSION_FORMS) THEN DEFAULT_VERSION_FORM
    ELSE IF contains(SPECIFIC_VERSION_FORMS[i].range, v) THEN SPECIFIC_VERSION_FORMS[i].form
    ELSE get_version_form_from(v, i + 1)

get_version_form(v) == get_version_form_from(v, 1)

\* the game versions of the scenario
GameVersions == UNION {[1..n -> 0..MaxNumber] : n \in 1..MaxComponents}

InitForm ==
    /\ IdleMerge
    /\ IdlePackage
    /\ IdleIndex
    /\ IdleLibraries
    /\ IdleBump
    /\ IdleCoord
    /\ fver \in GameVersions
    /\ fform = <<>>
    /\ fpc = "start"

\* get_version_form(fver)
GetVersionForm ==
    /\ fpc = "start"
    /\ fform' = get_version_form(fver)
    /\ fpc' = "selected"
    /\ UNCHANGED fver
    /\ UNCHANGED <<mergeVars, pkgVars, idxVars, libVars, bumpVars, coordVars>>

NextForm == GetVersionForm

SpecForm == InitForm /\ [][NextForm]_vars

(***************************************************************************)
(* Properties of the naming form selection                                 *)
(***************************************************************************)
\* the rank of a version in the order of versions: its components read as
\* the digits of a number, a missing component below every present one
RECURSIVE VersionRank(_, _)
VersionRank(v, n) ==
    IF n = 0 THEN 0
    ELSE (IF Len(v) >= 1 THEN v[1] + 1 ELSE 0) * (MaxNumber + 2) ^ (n - 1)
         + VersionRank(IF Len(v) >= 1 THEN Tail(v) ELSE v, n - 1)

Rank(v) == VersionRank(v, MaxComponents)

InClosedRange(v, i) ==
    /\ Rank(SPECIFIC_VERSION_FORMS[i].range.left) <= Rank(v)
    /\ Rank(v) <= Rank(SPECIFIC_VERSION_FORMS[i].range.right)

\* C26: a game version inside a configured closed range, endpoints
\* included, gets that range's form, the first such range in table order
\* deciding; a version outside every configured range gets the default
\* form.
C26_FormSelection ==
    fpc = "selected" =>
        /\ \A i \in DOMAIN SPECIFIC_VERSION_FORMS :
                (InClosedRange(fver, i) /\ \A j \in 1..(i - 1) : ~InClosedRange(fver, j)) =>
                    fform = SPECIFIC_VERSION_FORMS[i].form
        /\ (\A i \in DOMAIN SPECIFIC_VERSION_FORMS : ~InClosedRange(fver, i)) =>
                fform = DEFAULT_VERSION_FORM

\* the right endpoint 1.7.10 of the first range got that range's form
C26_Witness ==
    /\ fpc = "selected"
    /\ fver = <<1, 7, 10>>
    /\ fform = SPECIFIC_VERSION_FORMS[1].form
    /\ fform # DEFAULT_VERSION_FORM

=============================================================================
